---- MODULE Spec2Model ----
(***************************************************************************)
(* A model of the single-leader key-value node of src/kv (node.cpp,        *)
(* store.cpp, util.cpp): the per-peer failure detector, the heartbeat      *)
(* loop, the replication fan-out and the request handlers.                 *)
(*                                                                         *)
(* The cluster is the one of the usage text of src/kv/src/main.cpp: a      *)
(* leader "A" configured with the peers B and C, and a follower "B".       *)
(* Peer "C" is configured on the leader but its process is never started,  *)
(* so every probe of it and every push to it fails.                        *)
(***************************************************************************)
EXTENDS Integers, Sequences, FiniteSets, TLC

\* ------------------------------------------------------------------ bounds
MaxTime   == 3      \* the clock now_ms() runs over 1..MaxTime
MaxReq    == 2      \* client requests issued in one run (request ids 1..MaxReq)
MaxRounds == 2      \* heartbeat rounds one node starts in one run
MaxWrites == 1      \* client writes the leader accepts in the failure-detector scenario
MaxApply  == 3      \* inbound requests the follower handles in one run
MaxAppends == 4     \* append_jsonl calls of one process in one run
MaxPings  == 2      \* HEARTBEAT_PINGs the two-node detector sends in one run

\* ----------------------------------------------------------- configuration
\* NodeConfig::heartbeat_timeout_ms, in clock ticks
heartbeat_timeout_ms == 1

\* --hb_timeout_ms of the two-node detector, in clock ticks
hb_timeout_ms == 2

Nodes  == {"A", "B"}
Leader == "A"
Keys   == {"k"}
Vals   == {"v1", "v2"}

\* cfg_.is_leader
is_leader(n) == n = Leader

\* cfg_.peers, in the order of the --peers option
peers(n) == IF n = "A" THEN <<"B", "C">> ELSE <<>>

VARIABLES
  now,          \* now_ms(): the wall clock
  phase,        \* [Nodes -> "init" | "up" | "stopping" | "stopped"]: where run() is
  running,      \* Node::running_
  store,        \* Node::store_ : Store::kv_, a partial function Keys -> Vals
  last_ok_ms,   \* Node::last_ok_ms_, a partial function peer id -> time
  fd_state,     \* Node::fd_state_, a partial function peer id -> state
  fd_mu,        \* Node::fd_mu_ : "free" or the thread that holds it
  op_seq,       \* Node::op_seq_
  log,          \* the node's JSONL event log, in append order
  hb,           \* the heartbeat thread of each node
  push,         \* the detached replication threads
  resp,         \* the responses sent to clients, by request id
  nreq,         \* the number of client requests issued so far
  rounds,       \* the number of heartbeat rounds each node has started
  applied,      \* per node and peer, the outcome reports applied so far
  view,         \* per node, the last call of leader_is_dead: its argument and result
  reported,     \* per node, the peer ids the current heartbeat round has reported, in order
  jsonl,        \* append_jsonl of one process: g_log_mu, the file, the callers inside
  det           \* run_detector of the two-node detector: its atomics, threads and log

vars == <<now, phase, running, store, last_ok_ms, fd_state, fd_mu, op_seq, log,
          hb, push, resp, nreq, rounds, applied, view, reported, jsonl, det>>

\* f with key k set to v (operator[] of std::unordered_map)
Upd(f, k, v) == [x \in (DOMAIN f) \cup {k} |-> IF x = k THEN v ELSE f[x]]

EmptyMap == [x \in {} |-> 0]

\* thread identities, as the holder of fd_mu_
Free         == <<"free", 0, "">>
HbThread     == <<"hb", 0, "">>
PushThread(th) == <<"push", th.rid, th.peer>>
Caller       == <<"caller", 0, "">>

NoHb   == [pc |-> "idle", idx |-> 0, ok |-> FALSE, t |-> 0, prev |-> ""]
HbAt(pc, idx) == [pc |-> pc, idx |-> idx, ok |-> FALSE, t |-> 0, prev |-> ""]

\* no call of leader_is_dead yet
NoView == [now |-> 0, dead |-> FALSE]

\* the threads of one node process that call log_event
Producers == {"handler", "heartbeat", "push"}

\* the log file of one process before any append: g_log_mu free, the file
\* empty, no producer inside append_jsonl
NoJsonl ==
  [mu |-> "", file |-> <<>>, pc |-> [p \in Producers |-> "idle"],
   rec |-> [p \in Producers |-> 0], admitted |-> <<>>, calls |-> 0]

\* run_detector once connected to the peer: last_ack_time_mono holds
\* monotonic_ms() of the start, dead_declared is false, the three threads are
\* at the top of their loops, the peer is up, nothing is in flight
NoDet ==
  [last_ack_time_mono |-> 1, dead_declared |-> FALSE, log |-> <<>>,
   sender |-> "check", receiver |-> "read", checker |-> "sleep",
   seq |-> 0, acks |-> 0, cnow |-> 0, clast |-> 0, up |-> TRUE, closed |-> FALSE]

\* the state after construction: Node::Node(cfg), nothing run yet
Init ==
  /\ now = 1
  /\ phase = [n \in Nodes |-> "init"]
  /\ running = [n \in Nodes |-> FALSE]
  /\ store = [n \in Nodes |-> EmptyMap]
  /\ last_ok_ms = [n \in Nodes |-> EmptyMap]
  /\ fd_state = [n \in Nodes |-> EmptyMap]
  /\ fd_mu = [n \in Nodes |-> Free]
  /\ op_seq = [n \in Nodes |-> 0]
  /\ log = [n \in Nodes |-> <<>>]
  /\ hb = [n \in Nodes |-> NoHb]
  /\ push = {}
  /\ resp = EmptyMap
  /\ nreq = 0
  /\ rounds = [n \in Nodes |-> 0]
  /\ applied = [n \in Nodes |-> EmptyMap]
  /\ view = [n \in Nodes |-> NoView]
  /\ reported = [n \in Nodes |-> <<>>]
  /\ jsonl = NoJsonl
  /\ det = NoDet

\* ------------------------------------------------------------ the event log
\* Node::log_event followed by append_jsonl: one record appended under
\* g_log_mu.  rid 0 and key "" stand for the empty strings log_event omits.
\* ts_ms, ts_iso and node_id are not kept (the log is per node).
Event(type, rid, key, seq, extra) ==
  [type |-> type, rid |-> rid, key |-> key, seq |-> seq, extra |-> extra]

NoExtra == [x \in {} |-> 0]

\* --------------------------------------------------------------- the Store
StorePut(kv, k, v) == Upd(kv, k, v)

StoreHas(kv, k) == k \in DOMAIN kv

StoreGet(kv, k) == kv[k]

StoreDel(kv, k) == [x \in (DOMAIN kv) \ {k} |-> kv[x]]

\* ------------------------------------------------------ the failure detector
\* the local last_ok of fd_update_peer: 0 when the map has no entry
LastOk(m, p) == IF p \in DOMAIN m THEN m[p] ELSE 0

\* the local prev of fd_update_peer: "Alive" when the map has no entry
PrevState(m, p) == IF p \in DOMAIN m THEN m[p] ELSE "Alive"

\* FdNext without the never-succeeded guard of line 52
FdNext_NoStartupGuard(ok, last_ok, t) ==
  IF ok THEN "Alive"
  ELSE IF t - last_ok > heartbeat_timeout_ms THEN "Dead"
  ELSE "Suspected"

\* FdNext with >= for the > of line 55
FdNext_Geq(ok, last_ok, t) ==
  IF ok THEN "Alive"
  ELSE IF last_ok = 0 THEN "Suspected"
  ELSE IF t - last_ok >= heartbeat_timeout_ms THEN "Dead"
  ELSE "Suspected"

\* the local next of fd_update_peer
FdNext(ok, last_ok, t) ==
  IF ok THEN "Alive"
  ELSE IF last_ok = 0 THEN "Suspected"
  ELSE IF t - last_ok > heartbeat_timeout_ms THEN "Dead"
  ELSE "Suspected"

\* FdLastOkMap that keeps the newest success time
FdLastOkMap_KeepsNewest(m, p, ok, t) ==
  IF ok /\ t > LastOk(m, p) THEN Upd(m, p, t) ELSE m

\* FdLastOkMap that stamps every outcome, failed ones included
FdLastOkMap_StampsFailures(m, p, ok, t) == Upd(m, p, t)

\* last_ok_ms_ after line 40
FdLastOkMap(m, p, ok, t) == IF ok THEN Upd(m, p, t) ELSE m

\* FdStateMap that keeps no record for a peer found Alive, the default
FdStateMap_ForgetsAlive(m, p, next) ==
  IF next = "Alive" THEN [x \in (DOMAIN m) \ {p} |-> m[x]] ELSE Upd(m, p, next)

\* fd_state_ after lines 60 to 66: the entry of the peer is written in both
\* branches
FdStateMap(m, p, next) == Upd(m, p, next)

Max(a, b) == IF a >= b THEN a ELSE b

\* the record of applied reports: the one applied last, and the ok flags of
\* the ones stamped with the greatest completion time so far
Record(old, p, ok, t) ==
  LET had  == p \in DOMAIN old
      maxT == IF had THEN old[p].maxT ELSE 0
      maxOk == IF had THEN old[p].maxOk ELSE {}
  IN Upd(old, p, [last  |-> [ok |-> ok, t |-> t],
                  maxT  |-> Max(t, maxT),
                  maxOk |-> IF t > maxT THEN {ok}
                            ELSE IF t = maxT THEN maxOk \cup {ok} ELSE maxOk])

\* FdMayLock without the mutex
FdMayLock_NoMutex(n, who) == TRUE

\* whether thread `who` of node n may take fd_mu_
FdMayLock(n, who) == fd_mu[n] = Free

\* fd_update_peer from the lock_guard to the store into fd_state_
FdLockUpdate(n, who, p, ok, t) ==
  /\ FdMayLock(n, who)
  /\ fd_mu' = [fd_mu EXCEPT ![n] = who]
  /\ LET lastok == FdLastOkMap(last_ok_ms[n], p, ok, t)
     IN /\ last_ok_ms' = [last_ok_ms EXCEPT ![n] = lastok]
        /\ fd_state' = [fd_state EXCEPT
                          ![n] = FdStateMap(@, p, FdNext(ok, LastOk(lastok, p), t))]
  /\ applied' = [applied EXCEPT ![n] = Record(@, p, ok, t)]

\* FdLog logging every outcome, changed or not
FdLog_Always(n, p, prev) ==
  Append(log[n], Event("fd_state_change", 0, "", op_seq[n],
                       [peer_id |-> p, from |-> prev, to |-> fd_state[n][p]]))

\* the log after the rest of fd_update_peer
FdLog(n, p, prev) ==
  IF fd_state[n][p] # prev
  THEN Append(log[n], Event("fd_state_change", 0, "", op_seq[n],
                            [peer_id |-> p, from |-> prev, to |-> fd_state[n][p]]))
  ELSE log[n]

\* fd_update_peer from the comparison of next and prev to the unlock
FdLogUnlock(n, p, prev) ==
  /\ log' = [log EXCEPT ![n] = FdLog(n, p, prev)]
  /\ fd_mu' = [fd_mu EXCEPT ![n] = Free]

\* leader_is_dead with >= for the > of line 74
leader_is_dead_Geq(m, t) ==
  LET last == LastOk(m, "leader")
  IN IF last = 0 THEN FALSE ELSE (t - last) >= heartbeat_timeout_ms

\* the value Node::leader_is_dead(t) returns on the map m = last_ok_ms_
leader_is_dead(m, t) ==
  LET last == LastOk(m, "leader")
  IN IF last = 0 THEN FALSE ELSE (t - last) > heartbeat_timeout_ms

\* a call of Node::leader_is_dead(t) on node n, from the lock_guard to the
\* return; the argument is the caller's
LeaderIsDead(n, t) ==
  /\ phase[n] = "up"
  /\ FdMayLock(n, Caller)
  /\ view' = [view EXCEPT ![n] = [now |-> t, dead |-> leader_is_dead(last_ok_ms[n], t)]]
  /\ UNCHANGED <<jsonl, det, reported, now, phase, running, store, last_ok_ms, fd_state, fd_mu, op_seq,
                 log, hb, push, resp, nreq, rounds, applied>>

\* --------------------------------------------------------------- the network
\* whether a request to peer id / node `target` can be answered: the target
\* is a started node whose listener is serving
Reachable(target) == target \in Nodes /\ phase[target] = "up"

\* the outcomes of GET /internal/ping: a reachable target answers 200 or the
\* 200 ms timeouts expire; an unreachable one never answers
ProbeResults(target) == IF Reachable(target) THEN {TRUE, FALSE} ELSE {FALSE}

\* the outcomes of POST /internal/replicate: answered with 200, applied by the
\* target but the answer lost to the read timeout, or never delivered
PostResults(target) ==
  IF Reachable(target) THEN {"acked", "applied_lost", "lost"} ELSE {"lost"}

\* ------------------------------------------------------------ node lifecycle
\* Node::run up to svr.listen: running_ set, heartbeat thread started,
\* node_start logged, listener serving
Run(n) ==
  /\ phase[n] = "init"
  /\ phase' = [phase EXCEPT ![n] = "up"]
  /\ running' = [running EXCEPT ![n] = TRUE]
  /\ hb' = [hb EXCEPT ![n] = HbAt("check", 0)]
  /\ log' = [log EXCEPT ![n] = Append(@, Event("node_start", 0, "", op_seq[n],
                                               [is_leader |-> is_leader(n)]))]
  /\ UNCHANGED <<jsonl, det, reported, view, now, store, last_ok_ms, fd_state, fd_mu, op_seq, push, resp,
                 nreq, rounds, applied>>

\* Node::run after svr.listen has returned: node_stop logged, running_ cleared
Stop(n) ==
  /\ phase[n] = "up"
  /\ phase' = [phase EXCEPT ![n] = "stopping"]
  /\ log' = [log EXCEPT ![n] = Append(@, Event("node_stop", 0, "", op_seq[n], NoExtra))]
  /\ running' = [running EXCEPT ![n] = FALSE]
  /\ UNCHANGED <<jsonl, det, reported, view, now, store, last_ok_ms, fd_state, fd_mu, op_seq, hb, push, resp,
                 nreq, rounds, applied>>

\* hb_thread_.join() returns, run() and main() return: the process exits and
\* its detached replication threads end with it
Join(n) ==
  /\ phase[n] = "stopping"
  /\ hb[n].pc = "done"
  /\ phase' = [phase EXCEPT ![n] = "stopped"]
  /\ push' = {th \in push : th.node # n}
  /\ fd_mu' = [fd_mu EXCEPT ![n] = Free]
  /\ UNCHANGED <<jsonl, det, reported, view, now, running, store, last_ok_ms, fd_state, op_seq, log, hb, resp,
                 nreq, rounds, applied>>

\* ----------------------------------------------------------- heartbeat loop
\* the id the heartbeat thread of n records the current probe under
HbPeer(n) == IF is_leader(n) THEN peers(n)[hb[n].idx] ELSE "leader"

\* the node the current probe is sent to (cfg_.leader_host:leader_port on a
\* follower)
HbTarget(n) == IF is_leader(n) THEN peers(n)[hb[n].idx] ELSE Leader

\* where a round starts: the first peer on a leader, the leader on a follower,
\* straight to the sleep on a leader without peers
HbFirst(n) ==
  IF is_leader(n)
  THEN (IF Len(peers(n)) = 0 THEN HbAt("sleep", 0) ELSE HbAt("probe", 1))
  ELSE HbAt("probe", 0)

\* HbCheck of a loop that never reads running_: while (true)
HbCheck_NeverExits(n) ==
  /\ hb[n].pc = "check"
  /\ rounds[n] < MaxRounds
  /\ rounds' = [rounds EXCEPT ![n] = @ + 1]
  /\ hb' = [hb EXCEPT ![n] = HbFirst(n)]
  /\ reported' = [reported EXCEPT ![n] = <<>>]
  /\ UNCHANGED <<jsonl, det, view, now, phase, running, store, last_ok_ms, fd_state, fd_mu, op_seq,
                 log, push, resp, nreq, applied>>

\* while (running_): a new round starts, or the thread ends
HbCheck(n) ==
  /\ hb[n].pc = "check"
  /\ IF running[n]
     THEN /\ rounds[n] < MaxRounds
          /\ rounds' = [rounds EXCEPT ![n] = @ + 1]
          /\ hb' = [hb EXCEPT ![n] = HbFirst(n)]
          /\ reported' = [reported EXCEPT ![n] = <<>>]
     ELSE /\ hb' = [hb EXCEPT ![n] = HbAt("done", 0)]
          /\ UNCHANGED <<rounds, reported>>
  /\ UNCHANGED <<jsonl, det, view, now, phase, running, store, last_ok_ms, fd_state, fd_mu, op_seq,
                 log, push, resp, nreq, applied>>

\* cli.Get("/internal/ping") returns; ok and now_ms() are evaluated
HbProbe(n) ==
  /\ hb[n].pc = "probe"
  /\ \E ok \in ProbeResults(HbTarget(n)) :
       hb' = [hb EXCEPT ![n] = [@ EXCEPT !.pc = "fd", !.ok = ok, !.t = now]]
  /\ UNCHANGED <<jsonl, det, reported, view, now, phase, running, store, last_ok_ms, fd_state, fd_mu, op_seq,
                 log, push, resp, nreq, rounds, applied>>

\* the heartbeat thread enters fd_update_peer
HbEnter(n) ==
  /\ hb[n].pc = "fd"
  /\ FdLockUpdate(n, HbThread, HbPeer(n), hb[n].ok, hb[n].t)
  /\ hb' = [hb EXCEPT ![n] = [@ EXCEPT !.pc = "cs",
                                       !.prev = PrevState(fd_state[n], HbPeer(n))]]
  /\ reported' = [reported EXCEPT ![n] = Append(@, HbPeer(n))]
  /\ UNCHANGED <<jsonl, det, view, now, phase, running, store, op_seq, log, push, resp, nreq, rounds>>

\* HbAfter of a loop that ends the round after the first probe
HbAfter_SkipsRest(n) == HbAt("sleep", 0)

\* where the heartbeat thread goes after a probe: the next peer or the sleep
HbAfter(n) ==
  IF is_leader(n) /\ hb[n].idx < Len(peers(n))
  THEN HbAt("probe", hb[n].idx + 1)
  ELSE HbAt("sleep", 0)

\* the heartbeat thread leaves fd_update_peer
HbLeave(n) ==
  /\ hb[n].pc = "cs"
  /\ FdLogUnlock(n, HbPeer(n), hb[n].prev)
  /\ hb' = [hb EXCEPT ![n] = HbAfter(n)]
  /\ UNCHANGED <<jsonl, det, reported, view, now, phase, running, store, last_ok_ms, fd_state, op_seq, push,
                 resp, nreq, rounds, applied>>

\* sleep_for(max(1, interval - spent)) returns
HbSleep(n) ==
  /\ hb[n].pc = "sleep"
  /\ hb' = [hb EXCEPT ![n] = HbAt("check", 0)]
  /\ UNCHANGED <<jsonl, det, reported, view, now, phase, running, store, last_ok_ms, fd_state, fd_mu, op_seq,
                 log, push, resp, nreq, rounds, applied>>

\* ------------------------------------------------------ replication fan-out
\* replicate_async skipping the peers the failure detector holds Dead
replicate_async_SkipDead(n, rid, op, key, value) ==
  IF ~is_leader(n) THEN {}
  ELSE {[node |-> n, rid |-> rid, peer |-> peers(n)[i], op |-> op, key |-> key,
         value |-> value, pc |-> "post", ok |-> FALSE, status |-> 0, t |-> 0,
         prev |-> ""] :
          i \in {j \in 1..Len(peers(n)) : PrevState(fd_state[n], peers(n)[j]) # "Dead"}}

\* Node::replicate_async: the threads it starts, one per configured peer
replicate_async(n, rid, op, key, value) ==
  IF ~is_leader(n) THEN {}
  ELSE {[node |-> n, rid |-> rid, peer |-> peers(n)[i], op |-> op, key |-> key,
         value |-> value, pc |-> "post", ok |-> FALSE, status |-> 0, t |-> 0,
         prev |-> ""] : i \in 1..Len(peers(n))}

\* ReplicateStore of a handler that applies PUT only
ReplicateStore_IgnoresDel(kv, op, key, value) ==
  IF op = "PUT" THEN StorePut(kv, key, value) ELSE kv

\* ReplicateStore of a handler that keeps the value a key already has
ReplicateStore_FirstWins(kv, op, key, value) ==
  IF op = "PUT" THEN (IF StoreHas(kv, key) THEN kv ELSE StorePut(kv, key, value))
  ELSE IF op = "DEL" THEN StoreDel(kv, key)
  ELSE kv

\* the Store of a node after the /internal/replicate handler has applied op
ReplicateStore(kv, op, key, value) ==
  IF op = "PUT" THEN StorePut(kv, key, value)
  ELSE IF op = "DEL" THEN StoreDel(kv, key)
  ELSE kv

\* ReplicateLog of a handler that drops an operation that changes nothing
ReplicateLog_DropsDuplicate(m, rid, op, key, value) ==
  IF ReplicateStore(store[m], op, key, value) = store[m] THEN log[m]
  ELSE Append(log[m], Event("replicate_apply", rid, key, op_seq[m], [op |-> op]))

\* the log of node m after the /internal/replicate handler has applied op
ReplicateLog(m, rid, op, key, value) ==
  Append(log[m], Event("replicate_apply", rid, key, op_seq[m], [op |-> op]))

\* ReplicateFanout of a handler that forwards what it applies, as /put does
ReplicateFanout_Forwards(m, rid, op, key, value) == replicate_async(m, rid, op, key, value)

\* the threads the /internal/replicate handler starts: it applies and logs,
\* and calls replicate_async nowhere
ReplicateFanout(m, rid, op, key, value) == {}

\* the /internal/replicate handler of node m on a body that has op, key and rid
ReplicateHandler(m, rid, op, key, value) ==
  /\ store' = [store EXCEPT ![m] = ReplicateStore(@, op, key, value)]
  /\ log' = [log EXCEPT ![m] = ReplicateLog(m, rid, op, key, value)]

\* PushAfterPost of a thread that posts again when the Post has failed
PushAfterPost_Retry(th, res) ==
  IF res = "acked"
  THEN [th EXCEPT !.pc = "fd", !.ok = TRUE, !.status = 200, !.t = now]
  ELSE th

\* a replication thread after its cli.Post has returned: t and ok evaluated,
\* fd_update_peer next
PushAfterPost(th, res) ==
  [th EXCEPT !.pc = "fd", !.ok = (res = "acked"),
             !.status = IF res = "acked" THEN 200 ELSE 0,
             !.t = now]

\* a replication thread's cli.Post returns; t and ok are evaluated
PushPost(th) ==
  /\ th \in push
  /\ th.pc = "post"
  /\ \E res \in PostResults(th.peer) :
       /\ IF res = "lost"
          THEN /\ UNCHANGED <<store, log>>
               /\ push' = (push \ {th}) \cup {PushAfterPost(th, res)}
          ELSE /\ ReplicateHandler(th.peer, th.rid, th.op, th.key, th.value)
               /\ push' = (push \ {th}) \cup {PushAfterPost(th, res)} \cup
                            ReplicateFanout(th.peer, th.rid, th.op, th.key, th.value)
  /\ UNCHANGED <<jsonl, det, reported, view, now, phase, running, last_ok_ms, fd_state, fd_mu, op_seq, hb,
                 resp, nreq, rounds, applied>>

\* a replication thread enters fd_update_peer
PushEnter(th) ==
  /\ th \in push
  /\ th.pc = "fd"
  /\ FdLockUpdate(th.node, PushThread(th), th.peer, th.ok, th.t)
  /\ push' = (push \ {th}) \cup
               {[th EXCEPT !.pc = "cs", !.prev = PrevState(fd_state[th.node], th.peer)]}
  /\ UNCHANGED <<jsonl, det, reported, view, now, phase, running, store, op_seq, log, hb, resp, nreq, rounds>>

\* a replication thread leaves fd_update_peer
PushLeave(th) ==
  /\ th \in push
  /\ th.pc = "cs"
  /\ FdLogUnlock(th.node, th.peer, th.prev)
  /\ push' = (push \ {th}) \cup {[th EXCEPT !.pc = "result"]}
  /\ UNCHANGED <<jsonl, det, reported, view, now, phase, running, store, last_ok_ms, fd_state, op_seq, hb,
                 resp, nreq, rounds, applied>>

\* a replication thread logs replicate_result and ends
PushResult(th) ==
  /\ th \in push
  /\ th.pc = "result"
  /\ log' = [log EXCEPT ![th.node] =
               Append(@, Event("replicate_result", th.rid, th.key, op_seq[th.node],
                               [peer_id |-> th.peer, ok |-> th.ok,
                                http_status |-> th.status]))]
  /\ push' = push \ {th}
  /\ UNCHANGED <<jsonl, det, reported, view, now, phase, running, store, last_ok_ms, fd_state, fd_mu, op_seq,
                 hb, resp, nreq, rounds, applied>>

\* --------------------------------------------------------- request handlers
\* a parsed JSON body: discarded, or an object with some of the fields
Bodies(fields) ==
  {[discarded |-> TRUE, f |-> EmptyMap]} \cup
  {[discarded |-> FALSE, f |-> m] :
     m \in {x \in UNION {[D -> Keys \cup Vals] : D \in SUBSET fields} :
              /\ ("key" \in DOMAIN x => x["key"] \in Keys)
              /\ ("value" \in DOMAIN x => x["value"] \in Vals)}}

\* the test of the /put handler on the parsed body
PutBad(body) ==
  body.discarded \/ "key" \notin DOMAIN body.f \/ "value" \notin DOMAIN body.f

\* the test of the /get handler on the parsed body
GetBad(body) == body.discarded \/ "key" \notin DOMAIN body.f

\* the key or the value the /put handler reads from a body it accepts as
\* well-formed, "" for a body it rejects
PutField(body, name) == IF PutBad(body) THEN "" ELSE body.f[name]

\* PutStatus without the leader test of line 159
PutStatus_NoLeaderCheck(n, body) == IF PutBad(body) THEN 400 ELSE 200

\* PutStatus of a handler that waits for the peers and reports one it cannot reach
PutStatus_SurfacesPeerFailure(n, body) ==
  IF PutBad(body) THEN 400
  ELSE IF ~is_leader(n) THEN 409
  ELSE IF \E i \in 1..Len(peers(n)) : ~Reachable(peers(n)[i]) THEN 502
  ELSE 200

\* resp.status of the /put handler
PutStatus(n, body) ==
  IF PutBad(body) THEN 400 ELSE IF ~is_leader(n) THEN 409 ELSE 200

\* the event the /put handler logs
PutEvent(st, rid, body, seq) ==
  IF st = 400 THEN Event("put_badreq", rid, "", seq, NoExtra)
  ELSE IF st = 409 THEN Event("put_reject_not_leader", rid, body.f["key"], seq, NoExtra)
  ELSE Event("put_ok", rid, body.f["key"], seq, NoExtra)

\* the content the /put handler sets
PutContent(st, rid) ==
  IF st = 400 THEN [error |-> "bad_json"]
  ELSE IF st = 409 THEN [error |-> "not_leader"]
  ELSE [ok |-> TRUE, rid |-> rid]

\* the threads the /put handler starts
PutFanout(n, st, rid, body) ==
  IF st = 200 THEN replicate_async(n, rid, "PUT", body.f["key"], body.f["value"])
  ELSE {}

\* PutStore of a handler that forwards the write without applying it locally
PutStore_NotApplied(kv, st, body) == kv

\* the Store after the /put handler
PutStore(kv, st, body) ==
  IF st = 200 THEN StorePut(kv, body.f["key"], body.f["value"]) ELSE kv

\* the /put handler of node n on one request
PutHandler(n, body) ==
  LET rid == nreq + 1
      seq == op_seq[n] + 1
      st  == PutStatus(n, body)
  IN /\ phase[n] = "up"
     /\ nreq' = rid
     /\ op_seq' = [op_seq EXCEPT ![n] = seq]
     /\ store' = [store EXCEPT ![n] = PutStore(@, st, body)]
     /\ log' = [log EXCEPT ![n] = Append(@, PutEvent(st, rid, body, seq))]
     /\ push' = push \cup PutFanout(n, st, rid, body)
     /\ resp' = Upd(resp, rid, [node |-> n, req |-> "PUT", bad |-> PutBad(body),
                                key |-> PutField(body, "key"),
                                value |-> PutField(body, "value"),
                                status |-> st, content |-> PutContent(st, rid)])
     /\ UNCHANGED <<jsonl, det, reported, view, now, phase, running, last_ok_ms, fd_state, fd_mu, hb, rounds,
                    applied>>

\* GetStatus of a handler that treats an absent key as a bad request
GetStatus_AbsentIsError(kv, body) ==
  IF GetBad(body) THEN 400 ELSE IF ~StoreHas(kv, body.f["key"]) THEN 400 ELSE 200

\* resp.status of the /get handler
GetStatus(kv, body) ==
  IF GetBad(body) THEN 400 ELSE IF ~StoreHas(kv, body.f["key"]) THEN 404 ELSE 200

\* the event the /get handler logs
GetEvent(st, rid, body, seq) ==
  IF st = 400 THEN Event("get_badreq", rid, "", seq, NoExtra)
  ELSE IF st = 404 THEN Event("get_notfound", rid, body.f["key"], seq, NoExtra)
  ELSE Event("get_ok", rid, body.f["key"], seq, NoExtra)

\* the content the /get handler sets
GetContent(kv, st, rid, body) ==
  IF st = 400 THEN [error |-> "bad_json"]
  ELSE IF st = 404 THEN [ok |-> FALSE, rid |-> rid, found |-> FALSE]
  ELSE [ok |-> TRUE, rid |-> rid, found |-> TRUE, value |-> StoreGet(kv, body.f["key"])]

\* the /get handler of node n on one request
GetHandler(n, body) ==
  LET rid == nreq + 1
      seq == op_seq[n] + 1
      st  == GetStatus(store[n], body)
  IN /\ phase[n] = "up"
     /\ nreq' = rid
     /\ op_seq' = [op_seq EXCEPT ![n] = seq]
     /\ log' = [log EXCEPT ![n] = Append(@, GetEvent(st, rid, body, seq))]
     /\ resp' = Upd(resp, rid, [node |-> n, req |-> "GET", bad |-> GetBad(body),
                                key |-> IF GetBad(body) THEN "" ELSE body.f["key"],
                                value |-> "",
                                status |-> st,
                                content |-> GetContent(store[n], st, rid, body)])
     /\ UNCHANGED <<jsonl, det, reported, view, now, phase, running, store, last_ok_ms, fd_state, fd_mu, hb,
                    push, rounds, applied>>

\* the operation kinds a body of POST /internal/replicate may name: the two
\* the handler knows, and one it does not
Ops == {"PUT", "DEL", "DELETE"}

\* a parsed body of POST /internal/replicate: discarded, or an object with
\* some of the fields op, key, rid and value
ReplicateBodies(rid) ==
  {[discarded |-> TRUE, f |-> EmptyMap]} \cup
  {[discarded |-> FALSE,
    f |-> [x \in D |-> IF x = "op" THEN o ELSE IF x = "key" THEN k
                       ELSE IF x = "value" THEN v ELSE rid]] :
     D \in SUBSET {"op", "key", "rid", "value"}, o \in Ops, k \in Keys, v \in Vals}

\* the test of the /internal/replicate handler on the parsed body
ReplicateBad(body) ==
  \/ body.discarded
  \/ "op" \notin DOMAIN body.f \/ "key" \notin DOMAIN body.f \/ "rid" \notin DOMAIN body.f

\* body.value("value", "")
ReplicateValue(body) == IF "value" \in DOMAIN body.f THEN body.f["value"] ELSE ""

\* the op, key or value the /internal/replicate handler reads from a body it
\* accepts as well-formed, "" for a body it rejects
ReplicateField(body, name) ==
  IF ReplicateBad(body) THEN ""
  ELSE IF name = "value" THEN ReplicateValue(body) ELSE body.f[name]

\* resp.status of the /internal/replicate handler
ReplicateStatus(body) == IF ReplicateBad(body) THEN 400 ELSE 200

\* the content the /internal/replicate handler sets
ReplicateContent(st) == IF st = 400 THEN [error |-> "bad_json"] ELSE [ok |-> TRUE]

\* the /internal/replicate handler of node m on one request of any sender
ReplicateRequest(m, body) ==
  LET rid == nreq + 1
      st  == ReplicateStatus(body)
  IN /\ phase[m] = "up"
     /\ nreq' = rid
     /\ IF st = 400
        THEN UNCHANGED <<store, log, push>>
        ELSE /\ ReplicateHandler(m, body.f["rid"], body.f["op"], body.f["key"],
                                 ReplicateValue(body))
             /\ push' = push \cup ReplicateFanout(m, body.f["rid"], body.f["op"],
                                                  body.f["key"], ReplicateValue(body))
     /\ resp' = Upd(resp, rid, [node |-> m, req |-> "REPL", bad |-> ReplicateBad(body),
                                op |-> ReplicateField(body, "op"),
                                key |-> ReplicateField(body, "key"),
                                value |-> ReplicateField(body, "value"),
                                status |-> st, content |-> ReplicateContent(st)])
     /\ UNCHANGED <<jsonl, det, reported, view, now, phase, running, last_ok_ms, fd_state, fd_mu, op_seq,
                    hb, rounds, applied>>

\* ------------------------------------------------------------------- clock
Tick ==
  /\ now < MaxTime
  /\ now' = now + 1
  /\ UNCHANGED <<jsonl, det, reported, view, phase, running, store, last_ok_ms, fd_state, fd_mu, op_seq,
                 log, hb, push, resp, nreq, rounds, applied>>

\* the number of writes node n has accepted
Accepted(n) == Cardinality({i \in 1..Len(log[n]) : log[n][i].type = "put_ok"})

\* Every behaviour of the cluster: both nodes, their heartbeat threads, the
\* client requests on either node and the replication threads.
Next ==
  \/ Tick
  \/ \E n \in Nodes : Run(n)
  \/ \E n \in Nodes : Stop(n)
  \/ \E n \in Nodes : Join(n)
  \/ \E n \in Nodes : HbCheck(n)
  \/ \E n \in Nodes : HbProbe(n)
  \/ \E n \in Nodes : HbEnter(n)
  \/ \E n \in Nodes : HbLeave(n)
  \/ \E n \in Nodes : HbSleep(n)
  \/ \E th \in push : PushPost(th)
  \/ \E th \in push : PushEnter(th)
  \/ \E th \in push : PushLeave(th)
  \/ \E th \in push : PushResult(th)
  \/ (nreq < MaxReq /\ \E n \in Nodes, body \in Bodies({"key", "value"}) : PutHandler(n, body))
  \/ (nreq < MaxReq /\ \E n \in Nodes, body \in Bodies({"key"}) : GetHandler(n, body))
  \/ (nreq < MaxReq /\ \E n \in Nodes, body \in ReplicateBodies(nreq + 1) :
        ReplicateRequest(n, body))
  \/ \E n \in Nodes, t \in 1..MaxTime : LeaderIsDead(n, t)

Spec == Init /\ [][Next]_vars

\* The failure detector of the leader at work: the leader's heartbeat thread
\* and the replication threads of one client write report outcomes for B and
\* C, before and after B starts.  The follower's own heartbeat thread and the
\* client reads, which touch none of the leader's detector state, are not
\* scheduled.
NextFd ==
  \/ Tick
  \/ \E n \in Nodes : Run(n)
  \/ HbCheck(Leader)
  \/ HbProbe(Leader)
  \/ HbEnter(Leader)
  \/ HbLeave(Leader)
  \/ HbSleep(Leader)
  \/ \E th \in push : PushPost(th)
  \/ \E th \in push : PushEnter(th)
  \/ \E th \in push : PushLeave(th)
  \/ \E th \in push : PushResult(th)
  \/ (Accepted(Leader) < MaxWrites /\ \E k \in Keys :
        PutHandler(Leader, [discarded |-> FALSE, f |-> [key |-> k, value |-> "v1"]]))

SpecFd == Init /\ [][NextFd]_vars

\* The key-value traffic of the cluster: client requests on either node and
\* the replication threads they start, with the heartbeat threads, which touch
\* neither a Store nor a response, not scheduled and the clock standing still.
NextKv ==
  \/ \E n \in Nodes : Run(n)
  \/ Stop("B")
  \/ \E th \in push : PushPost(th)
  \/ \E th \in push : PushEnter(th)
  \/ \E th \in push : PushLeave(th)
  \/ \E th \in push : PushResult(th)
  \/ (nreq < MaxReq /\ \E n \in Nodes, body \in Bodies({"key", "value"}) : PutHandler(n, body))
  \/ (nreq < MaxReq /\ \E n \in Nodes, body \in Bodies({"key"}) : GetHandler(n, body))

SpecKv == Init /\ [][NextKv]_vars

\* The handlers of the follower facing inbound requests of any shape: client
\* PUTs and GETs and replicate-apply calls, well-formed and malformed.  A PUT
\* on a follower starts no replication thread, so there is none to schedule.
NextApply ==
  \/ Run("B")
  \/ (nreq < MaxApply /\ \E body \in Bodies({"key", "value"}) : PutHandler("B", body))
  \/ (nreq < MaxApply /\ \E body \in Bodies({"key"}) : GetHandler("B", body))
  \/ (nreq < MaxApply /\ \E body \in ReplicateBodies(nreq + 1) : ReplicateRequest("B", body))

SpecApply == Init /\ [][NextApply]_vars

\* The follower's view of the leader: the follower's heartbeat thread probes
\* the leader, before and after the leader starts, and reports the outcomes
\* under the id "leader"; leader_is_dead is called at any moment with any time.
NextView ==
  \/ Tick
  \/ \E n \in Nodes : Run(n)
  \/ HbCheck("B")
  \/ HbProbe("B")
  \/ HbEnter("B")
  \/ HbLeave("B")
  \/ HbSleep("B")
  \/ \E t \in 1..MaxTime : LeaderIsDead("B", t)

SpecView == Init /\ [][NextView]_vars

\* The heartbeat loops of both nodes: the leader probes B and C, the follower
\* probes the leader, each from the moment its node starts, with no client
\* traffic.
NextHb ==
  \/ Tick
  \/ \E n \in Nodes : Run(n)
  \/ \E n \in Nodes : HbCheck(n)
  \/ \E n \in Nodes : HbProbe(n)
  \/ \E n \in Nodes : HbEnter(n)
  \/ \E n \in Nodes : HbLeave(n)
  \/ \E n \in Nodes : HbSleep(n)

SpecHb == Init /\ [][NextHb]_vars

\* Start and shutdown: each node starts, its heartbeat loop runs, its listener
\* returns at any moment, and run() joins the heartbeat thread.
NextStop ==
  \/ \E n \in Nodes : Run(n)
  \/ \E n \in Nodes : Stop(n)
  \/ \E n \in Nodes : Join(n)
  \/ \E n \in Nodes : HbCheck(n)
  \/ \E n \in Nodes : HbProbe(n)
  \/ \E n \in Nodes : HbEnter(n)
  \/ \E n \in Nodes : HbLeave(n)
  \/ \E n \in Nodes : HbSleep(n)

SpecStop == Init /\ [][NextStop]_vars

\* SpecStop with the heartbeat thread and the thread in run() scheduled again
\* and again: a probe returns (the client has timeouts), fd_mu_ is obtained,
\* the sleep ends, join returns once the thread has ended
SpecStopLive ==
  /\ SpecStop
  /\ \A n \in Nodes :
       /\ WF_vars(HbCheck(n)) /\ WF_vars(HbProbe(n)) /\ WF_vars(HbEnter(n))
       /\ WF_vars(HbLeave(n)) /\ WF_vars(HbSleep(n)) /\ WF_vars(Join(n))

\* One write accepted by the leader and the replication threads it starts, up
\* to their end, with follower B started, serving and stopped at any moment.
NextPush ==
  \/ \E n \in Nodes : Run(n)
  \/ Stop("B")
  \/ \E th \in push : PushPost(th)
  \/ \E th \in push : PushEnter(th)
  \/ \E th \in push : PushLeave(th)
  \/ \E th \in push : PushResult(th)
  \/ (Accepted(Leader) < MaxWrites /\ \E k \in Keys, v \in Vals :
        PutHandler(Leader, [discarded |-> FALSE, f |-> [key |-> k, value |-> v]]))

SpecPush == Init /\ [][NextPush]_vars

\* SpecPush with every replication thread scheduled again and again until it
\* ends: its Post returns (the client has connection and read timeouts), it
\* gets fd_mu_, it logs
SpecPushLive ==
  /\ SpecPush
  /\ WF_vars(\E th \in push : PushPost(th))
  /\ WF_vars(\E th \in push : PushEnter(th))
  /\ WF_vars(\E th \in push : PushLeave(th))
  /\ WF_vars(\E th \in push : PushResult(th))

\* ------------------------------------------------------------ append_jsonl
\* the variables of the cluster, which append_jsonl and run_detector leave alone
cluster == <<phase, running, store, last_ok_ms, fd_state, fd_mu, op_seq, log, hb, push,
             resp, nreq, rounds, applied, view, reported>>

\* one piece of the file: the text of record rec written by producer by, or
\* the newline that ends it
Chunk(kind, p) == [kind |-> kind, rec |-> jsonl.rec[p], by |-> p]

\* std::lock_guard on a g_log_mu that excludes nobody
LogMayLock_NoMutex(mu) == TRUE

\* std::lock_guard<std::mutex> lk(g_log_mu) may return: the mutex is free
LogMayLock(mu) == mu = ""

\* Node::log_event has built the line of a new record and calls append_jsonl
LogCall(p) ==
  /\ jsonl.pc[p] = "idle"
  /\ jsonl.calls < MaxAppends
  /\ jsonl' = [jsonl EXCEPT !.pc[p] = "lock", !.rec[p] = jsonl.calls + 1,
                            !.calls = jsonl.calls + 1]
  /\ UNCHANGED <<now, det, cluster>>

\* the lock_guard of append_jsonl returns: the call is admitted; the file is
\* opened for appending
LogLock(p) ==
  /\ jsonl.pc[p] = "lock"
  /\ LogMayLock(jsonl.mu)
  /\ jsonl' = [jsonl EXCEPT !.mu = p, !.pc[p] = "line",
                            !.admitted = Append(@, jsonl.rec[p])]
  /\ UNCHANGED <<now, det, cluster>>

\* out << line : the text of the record goes to the end of the file
LogLine(p) ==
  /\ jsonl.pc[p] = "line"
  /\ jsonl' = [jsonl EXCEPT !.file = Append(@, Chunk("text", p)), !.pc[p] = "nl"]
  /\ UNCHANGED <<now, det, cluster>>

\* << "\n" : the newline goes to the end of the file
LogNewline(p) ==
  /\ jsonl.pc[p] = "nl"
  /\ jsonl' = [jsonl EXCEPT !.file = Append(@, Chunk("nl", p)), !.pc[p] = "unlock"]
  /\ UNCHANGED <<now, det, cluster>>

\* append_jsonl returns: the stream is closed, then the lock_guard releases
\* g_log_mu
LogUnlock(p) ==
  /\ jsonl.pc[p] = "unlock"
  /\ jsonl' = [jsonl EXCEPT !.mu = IF @ = p THEN "" ELSE @, !.pc[p] = "idle"]
  /\ UNCHANGED <<now, det, cluster>>

\* The event log of one process: its request handlers, its heartbeat loop
\* and its replication pushes log events at any moment, each through
\* log_event and append_jsonl.
NextLog ==
  \/ \E p \in Producers : LogCall(p)
  \/ \E p \in Producers : LogLock(p)
  \/ \E p \in Producers : LogLine(p)
  \/ \E p \in Producers : LogNewline(p)
  \/ \E p \in Producers : LogUnlock(p)

SpecLog == Init /\ [][NextLog]_vars

\* ------------------------------------------------- the two-node detector
\* Logger::log of the detector process: one event appended under Logger::m
DetLog(event) == Append(det.log, event)

\* sender: while (!dead_declared.load())
SenderCheck ==
  /\ det.sender = "check"
  /\ det.dead_declared \/ det.seq < MaxPings
  /\ det' = [det EXCEPT !.sender = IF det.dead_declared THEN "done" ELSE "send"]
  /\ UNCHANGED <<now, jsonl, cluster>>

\* sender: send_all of one HEARTBEAT_PING; it fails on the closed socket and
\* may fail on the connection of a stopped peer; a peer that is up answers
\* with one HEARTBEAT_ACK
SenderSend ==
  /\ det.sender = "send"
  /\ \/ /\ det.closed \/ ~det.up
        /\ det' = [det EXCEPT !.sender = "done"]
     \/ /\ ~det.closed
        /\ det' = [det EXCEPT !.sender = "log", !.seq = @ + 1,
                              !.acks = IF det.up THEN @ + 1 ELSE @]
  /\ UNCHANGED <<now, jsonl, cluster>>

\* sender: log.log("hb_ping_sent"), then the sleep of hb_interval_ms
SenderLog ==
  /\ det.sender = "log"
  /\ det' = [det EXCEPT !.log = DetLog("hb_ping_sent"), !.sender = "check"]
  /\ UNCHANGED <<now, jsonl, cluster>>

\* the monitored peer is stopped
PeerStop ==
  /\ det.up
  /\ det' = [det EXCEPT !.up = FALSE]
  /\ UNCHANGED <<now, jsonl, cluster>>

\* receiver: read_line returns a HEARTBEAT_ACK, or fails on the closed socket
\* or on the connection of a stopped peer
ReceiverRead ==
  /\ det.receiver = "read"
  /\ \/ /\ det.acks > 0 /\ ~det.closed
        /\ det' = [det EXCEPT !.acks = @ - 1, !.receiver = "test"]
     \/ /\ det.closed \/ (~det.up /\ det.acks = 0)
        /\ det' = [det EXCEPT !.receiver = "done"]
  /\ UNCHANGED <<now, jsonl, cluster>>

\* receiver: if (dead_declared.load()) continue;
ReceiverTest ==
  /\ det.receiver = "test"
  /\ det' = [det EXCEPT !.receiver = IF det.dead_declared THEN "read" ELSE "store"]
  /\ UNCHANGED <<now, jsonl, cluster>>

\* receiver: last_ack_time_mono.store(monotonic_ms())
ReceiverStore ==
  /\ det.receiver = "store"
  /\ det' = [det EXCEPT !.last_ack_time_mono = now, !.receiver = "log"]
  /\ UNCHANGED <<now, jsonl, cluster>>

\* receiver: log.log("hb_ack_recv")
ReceiverLog ==
  /\ det.receiver = "log"
  /\ det' = [det EXCEPT !.log = DetLog("hb_ack_recv"), !.receiver = "read"]
  /\ UNCHANGED <<now, jsonl, cluster>>

\* checker: the sleep of check_interval_ms returns;
\* if (dead_declared.load()) continue; now = monotonic_ms()
CheckerNow ==
  /\ det.checker = "sleep"
  /\ det' = IF det.dead_declared THEN det
            ELSE [det EXCEPT !.checker = "last", !.cnow = now]
  /\ UNCHANGED <<now, jsonl, cluster>>

\* the test of the checker on delta = now - last
Expired(delta) == delta >= hb_timeout_ms

\* checker: last = last_ack_time_mono.load(); if (delta >= hb_timeout_ms)
CheckerLast ==
  /\ det.checker = "last"
  /\ det' = [det EXCEPT !.clast = det.last_ack_time_mono,
                        !.checker = IF Expired(det.cnow - det.last_ack_time_mono)
                                     THEN "declare" ELSE "sleep"]
  /\ UNCHANGED <<now, jsonl, cluster>>

\* checker: dead_declared.store(true)
CheckerDeclare ==
  /\ det.checker = "declare"
  /\ det' = [det EXCEPT !.dead_declared = TRUE, !.checker = "log"]
  /\ UNCHANGED <<now, jsonl, cluster>>

\* checker: log.log("declared_dead"); break
CheckerLog ==
  /\ det.checker = "log"
  /\ det' = [det EXCEPT !.log = DetLog("declared_dead"), !.checker = "close"]
  /\ UNCHANGED <<now, jsonl, cluster>>

\* checker: close_socket(hb_fd), which unblocks the receiver; the joins follow
CheckerClose ==
  /\ det.checker = "close"
  /\ det' = [det EXCEPT !.closed = TRUE, !.checker = "join"]
  /\ UNCHANGED <<now, jsonl, cluster>>

\* The two-node detector: the sender, receiver and checker threads of
\* run_detector interleaved in every way, the peer answering each PING it
\* gets until it is stopped, the clock (monotonic_ms() here) advancing.
NextDet ==
  \/ Tick
  \/ PeerStop
  \/ SenderCheck
  \/ SenderSend
  \/ SenderLog
  \/ ReceiverRead
  \/ ReceiverTest
  \/ ReceiverStore
  \/ ReceiverLog
  \/ CheckerNow
  \/ CheckerLast
  \/ CheckerDeclare
  \/ CheckerLog
  \/ CheckerClose

SpecDet == Init /\ [][NextDet]_vars

\* Replication seen from every side: client writes on either node, the
\* leader's replication threads, and /internal/replicate requests of any
\* shape arriving at either node, the leader included.
NextCascade ==
  \/ \E n \in Nodes : Run(n)
  \/ \E th \in push : PushPost(th)
  \/ \E th \in push : PushEnter(th)
  \/ \E th \in push : PushLeave(th)
  \/ \E th \in push : PushResult(th)
  \/ (nreq < MaxReq /\ \E n \in Nodes, body \in Bodies({"key", "value"}) : PutHandler(n, body))
  \/ (nreq < MaxReq /\ \E n \in Nodes, body \in ReplicateBodies(nreq + 1) :
        ReplicateRequest(n, body))

SpecCascade == Init /\ [][NextCascade]_vars

\* ------------------------------------------------------------------ claims
\* the calls of fd_update_peer in progress on node n: "fd" is stamped and
\* waiting for fd_mu_, "cs" has updated the maps and holds fd_mu_
FdCalls(n) ==
  (IF hb[n].pc \in {"fd", "cs"}
   THEN {[who |-> HbThread, peer |-> HbPeer(n), ok |-> hb[n].ok, t |-> hb[n].t,
          pc |-> hb[n].pc, prev |-> hb[n].prev]}
   ELSE {})
  \cup
  {[who |-> PushThread(th), peer |-> th.peer, ok |-> th.ok, t |-> th.t,
    pc |-> th.pc, prev |-> th.prev] : th \in {x \in push : x.node = n /\ x.pc \in {"fd", "cs"}}}

\* the fd_state_change events of a log, in log order
FdEvents(lg) == SelectSeq(lg, LAMBDA e : e.type = "fd_state_change")

\* C1: a peer with no recorded success (no entry, or 0, in last_ok_ms_) that
\* has a health record, i.e. has had failed outcomes only, is Suspected and
\* never Dead, whatever the times of the failed outcomes.
C1_NeverSucceededIsSuspected ==
  \A n \in Nodes : \A p \in DOMAIN fd_state[n] :
    (p \notin DOMAIN last_ok_ms[n] \/ last_ok_ms[n][p] = 0)
      => fd_state[n][p] = "Suspected"

\* C1 witness: peer C of the leader has had a failed outcome at time 1 and a
\* second one more than heartbeat_timeout later, and is Suspected.
C1_Witness ==
  /\ "C" \notin DOMAIN last_ok_ms[Leader]
  /\ "C" \in DOMAIN fd_state[Leader]
  /\ fd_state[Leader]["C"] = "Suspected"
  /\ \E c \in FdCalls(Leader) :
       /\ c.pc = "cs" /\ c.peer = "C" /\ ~c.ok /\ c.prev = "Suspected"
       /\ c.t > 1 + heartbeat_timeout_ms
  /\ \E th \in push : th.peer = "C" /\ th.pc = "result" /\ ~th.ok /\ th.t = 1

\* C2: right after a failed outcome stamped t has been applied for a peer
\* whose last success was recorded at T, the peer is Dead iff
\* t - T > heartbeat_timeout and Suspected otherwise (t - T = heartbeat_timeout
\* and t - T <= 0 included).
C2_DeadIffElapsedExceedsTimeout ==
  \A n \in Nodes : \A c \in FdCalls(n) :
    (c.pc = "cs" /\ ~c.ok /\ c.peer \in DOMAIN last_ok_ms[n])
      => LET D == c.t - last_ok_ms[n][c.peer]
         IN /\ (D > heartbeat_timeout_ms => fd_state[n][c.peer] = "Dead")
            /\ (D <= heartbeat_timeout_ms => fd_state[n][c.peer] = "Suspected")

\* C2 witness: a failed outcome stamped more than heartbeat_timeout after the
\* last success has just been applied and the peer is Dead.
C2_Witness ==
  \E c \in FdCalls(Leader) :
    /\ c.pc = "cs" /\ ~c.ok /\ c.peer \in DOMAIN last_ok_ms[Leader]
    /\ c.t - last_ok_ms[Leader][c.peer] > heartbeat_timeout_ms
    /\ fd_state[Leader][c.peer] = "Dead"

\* the call that holds fd_mu_ of node n
Holder(n) == CHOOSE c \in FdCalls(n) : c.who = fd_mu[n]

\* the state recorded for peer p on node n, "Alive" when there is no record
Recorded(n, p) == IF p \in DOMAIN fd_state[n] THEN fd_state[n][p] ELSE "Alive"

\* the fd_state_change event of peer p from state a to state b
IsChange(e, p, a, b) ==
  /\ e.type = "fd_state_change"
  /\ e.extra.peer_id = p /\ e.extra.from = a /\ e.extra.to = b

\* C3: every record_outcome call appends one fd_state_change event for its
\* peer, from the previously recorded state (Alive without a record) to the
\* newly computed one, iff the two differ, and appends nothing when they are
\* equal; fd_state_change events are appended by record_outcome calls only.
C3_EventIffStateChanges ==
  [][\A n \in Nodes :
       /\ (fd_mu[n] = Free /\ fd_mu'[n] # Free) =>
            \* the call takes the lock: the state it read is the recorded one
            /\ log'[n] = log[n]
            /\ \E c \in FdCalls(n)' :
                 /\ c.who = fd_mu'[n] /\ c.pc = "cs"
                 /\ c.prev = Recorded(n, c.peer)
       /\ (fd_mu[n] # Free /\ fd_mu'[n] = Free /\ phase'[n] # "stopped") =>
            \* the call returns: the event is there iff the state changed
            LET c == Holder(n)
                to == fd_state[n][c.peer]
            IN /\ fd_state'[n] = fd_state[n]
               /\ IF to # c.prev
                  THEN /\ Len(log'[n]) = Len(log[n]) + 1
                       /\ SubSeq(log'[n], 1, Len(log[n])) = log[n]
                       /\ IsChange(log'[n][Len(log'[n])], c.peer, c.prev, to)
                  ELSE log'[n] = log[n]
       /\ (~(fd_mu[n] # Free /\ fd_mu'[n] = Free)) =>
            Len(FdEvents(log'[n])) = Len(FdEvents(log[n]))
    ]_vars

\* C3 witness: a call that computed the state the peer already had (a second
\* failed outcome for Suspected C) holds the lock, after a first transition of
\* that peer has been logged.
C3_Witness ==
  /\ fd_mu[Leader] # Free
  /\ \E c \in FdCalls(Leader) :
       /\ c.who = fd_mu[Leader] /\ c.prev = fd_state[Leader][c.peer]
       /\ \E i \in 1..Len(log[Leader]) :
            IsChange(log[Leader][i], c.peer, "Alive", "Suspected")

\* C4 as claimed: every fd_state_change event to Dead comes from Suspected.
C4_DeadOnlyFromSuspected ==
  \A n \in Nodes : \A i \in 1..Len(log[n]) :
    (log[n][i].type = "fd_state_change" /\ log[n][i].extra.to = "Dead")
      => log[n][i].extra.from = "Suspected"

\* C4 amended: an fd_state_change event to Dead comes from Suspected or
\* directly from Alive, and in both cases it is logged by a failed outcome for
\* a peer that has a recorded success, stamped more than heartbeat_timeout
\* after that success.
C4_DeadFromAliveOrSuspectedAfterTimeout ==
  [][\A n \in Nodes :
       (/\ Len(log'[n]) = Len(log[n]) + 1
        /\ log'[n][Len(log'[n])].type = "fd_state_change"
        /\ log'[n][Len(log'[n])].extra.to = "Dead")
         => LET e == log'[n][Len(log'[n])]
                c == Holder(n)
            IN /\ e.extra.from \in {"Alive", "Suspected"}
               /\ c.peer = e.extra.peer_id
               /\ ~c.ok
               /\ c.peer \in DOMAIN last_ok_ms[n]
               /\ last_ok_ms[n][c.peer] # 0
               /\ c.t - last_ok_ms[n][c.peer] > heartbeat_timeout_ms
    ]_vars

\* C4 witness: the leader's log holds a direct Alive to Dead transition of B.
C4_Witness ==
  \E i \in 1..Len(log[Leader]) : IsChange(log[Leader][i], "B", "Alive", "Dead")

\* the reports for peer p of node n that are stamped and not yet applied
Pending(n, p) == {c \in FdCalls(n) : c.pc = "fd" /\ c.peer = p}

\* C5 as claimed: once every stamped report for a peer has been applied, the
\* peer is recorded Alive iff the report with the latest completion time (when
\* there is exactly one) was a success.
C5_LatestCompletionWins ==
  \A n \in Nodes : \A p \in DOMAIN applied[n] :
    (Pending(n, p) = {} /\ Cardinality(applied[n][p].maxOk) = 1)
      => (fd_state[n][p] = "Alive" <=> TRUE \in applied[n][p].maxOk)

\* C5 amended: at most one report is being applied on a node at any time, and
\* the state recorded for a peer is the one produced by the report applied
\* last (the last to take fd_mu_), whatever its completion time: Alive with
\* last_success_time its stamp for a success; for a failure Dead when a
\* success is recorded and the stamp is more than heartbeat_timeout after it,
\* Suspected otherwise.
C5_LastAppliedWins ==
  \A n \in Nodes :
    /\ Cardinality({c \in FdCalls(n) : c.pc = "cs"}) <= 1
    /\ (fd_mu[n] = Free <=> {c \in FdCalls(n) : c.pc = "cs"} = {})
    /\ \A p \in DOMAIN applied[n] :
         LET r == applied[n][p].last
         IN /\ p \in DOMAIN fd_state[n]
            /\ r.ok => /\ fd_state[n][p] = "Alive"
                       /\ p \in DOMAIN last_ok_ms[n] /\ last_ok_ms[n][p] = r.t
            /\ ~r.ok =>
                 IF p \in DOMAIN last_ok_ms[n]
                    /\ r.t - last_ok_ms[n][p] > heartbeat_timeout_ms
                 THEN fd_state[n][p] = "Dead"
                 ELSE fd_state[n][p] = "Suspected"

\* C5 witness: every report for B has been applied, the one with the latest
\* completion time was a success, the one applied last was an earlier failure,
\* and B is Suspected.
C5_Witness ==
  /\ "B" \in DOMAIN applied[Leader]
  /\ Pending(Leader, "B") = {}
  /\ fd_mu[Leader] = Free
  /\ applied[Leader]["B"].maxOk = {TRUE}
  /\ ~applied[Leader]["B"].last.ok
  /\ applied[Leader]["B"].last.t < applied[Leader]["B"].maxT
  /\ fd_state[Leader]["B"] = "Suspected"

\* C6 as claimed: while a report for peer p is being applied, a stamped report
\* for another peer q of the same node can take its turn at once.
C6_DistinctPeersNeverBlock ==
  \A n \in Nodes : \A c, d \in FdCalls(n) :
    (c.pc = "cs" /\ d.pc = "fd" /\ c.peer # d.peer) => FdMayLock(n, d.who)

\* the positions of the writes to key k in a node's log
WritesOf(lg, k) ==
  {i \in 1..Len(lg) : lg[i].type \in {"put_ok", "replicate_apply"} /\ lg[i].key = k}

\* the position of the last write to key k in a node's log
LastWrite(lg, k) == CHOOSE i \in WritesOf(lg, k) : \A j \in WritesOf(lg, k) : j <= i

\* C7: a GET(key) on the leader whose key was last written by an accepted
\* client PUT(key, value) answers 200, found, with exactly that value, in
\* whatever state the replication threads of that PUT are.
C7_ReadYourWrites ==
  [][\A rid \in (DOMAIN resp') \ (DOMAIN resp) :
       LET r == resp'[rid]
       IN (r.node = Leader /\ r.req = "GET" /\ ~r.bad) =>
            LET k == r.key
                lg == log[Leader]
            IN (WritesOf(lg, k) # {} /\ lg[LastWrite(lg, k)].type = "put_ok") =>
                 /\ r.status = 200
                 /\ r.content.found
                 /\ r.content.value = resp[lg[LastWrite(lg, k)].rid].value
    ]_vars

\* C7 witness: a GET on the leader has returned the value of the PUT before it
\* while the push of that PUT to B is still in flight and the push to C has
\* failed.
C7_Witness ==
  \E w, g \in DOMAIN resp :
    /\ w < g
    /\ resp[w].node = Leader /\ resp[w].req = "PUT" /\ resp[w].status = 200
    /\ resp[g].node = Leader /\ resp[g].req = "GET" /\ resp[g].status = 200
    /\ resp[g].content.value = resp[w].value
    /\ \E th \in push : th.rid = w /\ th.peer = "B" /\ th.pc = "post"
    /\ \E th \in push : th.rid = w /\ th.peer = "C" /\ th.pc # "post" /\ ~th.ok

\* C8: a well-formed PUT on a node that is not the leader is answered 409
\* not_leader, logs put_reject_not_leader, and leaves every Store and the set
\* of replication threads as they were.
C8_NonLeaderPutRejected ==
  [][\A rid \in (DOMAIN resp') \ (DOMAIN resp) :
       LET r == resp'[rid]
       IN (r.req = "PUT" /\ ~r.bad /\ r.node # Leader) =>
            /\ r.status = 409
            /\ r.content = [error |-> "not_leader"]
            /\ Len(log'[r.node]) = Len(log[r.node]) + 1
            /\ SubSeq(log'[r.node], 1, Len(log[r.node])) = log[r.node]
            /\ log'[r.node][Len(log'[r.node])].type = "put_reject_not_leader"
            /\ log'[r.node][Len(log'[r.node])].rid = rid
            /\ store' = store
            /\ push' = push
    ]_vars

\* C8 witness: follower B has answered a well-formed PUT with 409.
C8_Witness ==
  \E rid \in DOMAIN resp :
    /\ resp[rid].node = "B" /\ resp[rid].req = "PUT" /\ ~resp[rid].bad
    /\ resp[rid].status = 409

\* C9: a well-formed PUT on the leader is answered 200 with ok and its request
\* id at a moment when none of its pushes has completed, and no response is
\* changed afterwards, whatever the pushes do.
C9_LeaderPutAlwaysSucceeds ==
  [][/\ \A rid \in (DOMAIN resp') \ (DOMAIN resp) :
          LET r == resp'[rid]
          IN (r.req = "PUT" /\ ~r.bad /\ r.node = Leader) =>
               /\ r.status = 200
               /\ r.content = [ok |-> TRUE, rid |-> rid]
               /\ \A th \in push' : th.rid = rid => th.pc = "post"
     /\ \A rid \in DOMAIN resp : rid \in DOMAIN resp' /\ resp'[rid] = resp[rid]
    ]_vars

\* C9 witness: the leader has answered a PUT with 200 and both of its pushes
\* have failed: one is logged as replicate_result ok=false, the other has
\* recorded its failure.
C9_Witness ==
  \E rid \in DOMAIN resp :
    /\ resp[rid].node = Leader /\ resp[rid].req = "PUT" /\ resp[rid].status = 200
    /\ \E i \in 1..Len(log[Leader]) :
         /\ log[Leader][i].type = "replicate_result" /\ log[Leader][i].rid = rid
         /\ log[Leader][i].extra.peer_id = "B" /\ ~log[Leader][i].extra.ok
    /\ \E th \in push : th.rid = rid /\ th.peer = "C" /\ th.pc = "result" /\ ~th.ok

\* C10: the step that accepts a write on the leader starts exactly one push,
\* carrying the write, for every configured peer and no other, whatever state
\* the failure detector records for the peer.
C10_FanoutToEveryPeer ==
  [][\A rid \in (DOMAIN resp') \ (DOMAIN resp) :
       LET r == resp'[rid]
           started == push' \ push
       IN (r.req = "PUT" /\ r.status = 200) =>
            /\ Cardinality(started) = Len(peers(r.node))
            /\ \A i \in 1..Len(peers(r.node)) :
                 \E th \in started :
                   /\ th.node = r.node /\ th.peer = peers(r.node)[i] /\ th.rid = rid
                   /\ th.pc = "post" /\ th.op = "PUT"
                   /\ th.key = r.key /\ th.value = r.value
    ]_vars

\* C10 witness: the leader has logged B's transition to Dead and then put_ok,
\* B is still recorded Dead, and the push of that write to B has been started.
C10_Witness ==
  /\ Len(log[Leader]) >= 2
  /\ fd_mu[Leader] = Free
  /\ "B" \in DOMAIN fd_state[Leader] /\ fd_state[Leader]["B"] = "Dead"
  /\ LET e == log[Leader][Len(log[Leader])]
         d == log[Leader][Len(log[Leader]) - 1]
     IN /\ e.type = "put_ok"
        /\ d.type = "fd_state_change" /\ d.extra.peer_id = "B" /\ d.extra.to = "Dead"
        /\ \E th \in push : th.rid = e.rid /\ th.peer = "B" /\ th.pc = "post"

\* the peer ids configured on the leader
PeerIds == {peers(Leader)[i] : i \in 1..Len(peers(Leader))}

\* the replication threads of write rid to peer p that have not ended
ThreadsOf(rid, p) == {th \in push : th.rid = rid /\ th.peer = p}

\* the positions of the replicate_result events for (rid, p) in a log
ResultsOf(lg, rid, p) ==
  {i \in 1..Len(lg) : /\ lg[i].type = "replicate_result" /\ lg[i].rid = rid
                      /\ lg[i].extra.peer_id = p}

\* the positions of the replicate_apply events for rid in a log
AppliesOf(lg, rid) ==
  {i \in 1..Len(lg) : lg[i].type = "replicate_apply" /\ lg[i].rid = rid}

\* the number of deliveries of write rid to peer p
Deliveries(rid, p) == IF p \in Nodes THEN Cardinality(AppliesOf(log[p], rid)) ELSE 0

\* the order of the steps of a replication thread
PcRank(pc) == IF pc = "post" THEN 1 ELSE IF pc = "fd" THEN 2 ELSE IF pc = "cs" THEN 3 ELSE 4

\* C11, in every state: an accepted write has at most one thread per peer,
\* which has either not yet logged or has ended with exactly one
\* replicate_result; the write is delivered at most once, and not before the
\* attempt; a result with ok = true means the peer applied the write.
C11_AtMostOnce ==
  \A rid \in DOMAIN resp : \A p \in PeerIds :
    (resp[rid].req = "PUT" /\ resp[rid].status = 200) =>
      LET ths == ThreadsOf(rid, p)
          res == ResultsOf(log[Leader], rid, p)
      IN /\ Cardinality(ths) + Cardinality(res) = 1
         /\ Deliveries(rid, p) <= 1
         /\ \A th \in ths :
              /\ th.pc = "post" => Deliveries(rid, p) = 0
              /\ (th.pc # "post" /\ th.ok) => Deliveries(rid, p) = 1
              /\ th.pc # "post" => (th.ok <=> th.status = 200)
         /\ \A i \in res :
              /\ log[Leader][i].extra.ok => Deliveries(rid, p) = 1
              /\ log[Leader][i].extra.ok <=> log[Leader][i].extra.http_status = 200

\* C11, in every step: a thread only moves forward, one step at a time, from
\* its one Post to its one record_outcome call to its one replicate_result
\* event, which carries the ok flag of the Post; a Post to an unreachable peer
\* delivers nothing and fails; an outcome is recorded by the one step that
\* takes a thread into fd_update_peer.
C11_Forward ==
  /\ \A th \in push :
       \/ th \in push'
       \/ /\ th.pc = "result"
          /\ ThreadsOf(th.rid, th.peer)' = {}
          /\ Len(log'[th.node]) = Len(log[th.node]) + 1
          /\ LET e == log'[th.node][Len(log'[th.node])]
             IN /\ e.type = "replicate_result" /\ e.rid = th.rid
                /\ e.extra.peer_id = th.peer /\ e.extra.ok = th.ok
       \/ /\ th.pc # "result"
          /\ \E nx \in ThreadsOf(th.rid, th.peer)' :
               /\ PcRank(nx.pc) = PcRank(th.pc) + 1
               /\ th.pc # "post" => (nx.ok = th.ok /\ nx.t = th.t)
               /\ (th.pc = "post" /\ ~Reachable(th.peer)) =>
                    (~nx.ok /\ store' = store /\ log' = log)
               /\ (th.pc = "post" /\ nx.ok) =>
                    Deliveries(th.rid, th.peer)' = Deliveries(th.rid, th.peer) + 1
               /\ (th.pc = "fd") =>
                    applied'[th.node][th.peer].last = [ok |-> th.ok, t |-> th.t]
  /\ (applied' # applied) => \E th \in push : th.pc = "fd" /\ th \notin push'

\* C11: for every accepted write and every peer there is one delivery
\* attempt and no retry; the attempt ends in one record_outcome call and then
\* in exactly one replicate_result event for (request id, peer), with ok true
\* only if the peer applied the write and answered 200; a write pushed to an
\* unreachable peer is not delivered.
C11_OneAttemptOneOutcomeOneResult ==
  /\ []C11_AtMostOnce
  /\ [][C11_Forward]_vars
  /\ \A rid \in 1..(MaxWrites + 1) : \A p \in PeerIds :
       (rid \in DOMAIN resp)
         ~> (ThreadsOf(rid, p) = {} /\ Cardinality(ResultsOf(log[Leader], rid, p)) = 1)

\* C11 witness: both threads of a write have ended; the one for B, which B
\* answered, has logged ok = true after B applied the write once, the one for
\* unreachable C has logged ok = false.
C11_Witness ==
  \E rid \in DOMAIN resp :
    /\ resp[rid].status = 200 /\ push = {}
    /\ Deliveries(rid, "B") = 1
    /\ \E i \in ResultsOf(log[Leader], rid, "B") : log[Leader][i].extra.ok
    /\ \E i \in ResultsOf(log[Leader], rid, "C") : ~log[Leader][i].extra.ok

\* the last event of a log
LastEvent(lg) == lg[Len(lg)]

\* log b is log a with one event appended
Appended(a, b) == Len(b) = Len(a) + 1 /\ SubSeq(b, 1, Len(a)) = a

\* C12: a replicate-apply request that carries op, key and rid is answered
\* 200 {ok: true} and logs one replicate_apply event with its rid, key and op;
\* with op PUT the key holds the value afterwards ("" without a value), with
\* the delete kind (op "DEL" on the wire) the key is absent afterwards, and
\* every other key is as before.
C12_WellFormedApplyAlwaysAccepted ==
  [][\A rid \in (DOMAIN resp') \ (DOMAIN resp) :
       LET r == resp'[rid]
           m == r.node
       IN (r.req = "REPL" /\ ~r.bad) =>
            /\ r.status = 200
            /\ r.content = [ok |-> TRUE]
            /\ Appended(log[m], log'[m])
            /\ LastEvent(log'[m]).type = "replicate_apply"
            /\ LastEvent(log'[m]).rid = rid
            /\ LastEvent(log'[m]).key = r.key
            /\ LastEvent(log'[m]).extra.op = r.op
            /\ r.op = "PUT" => (r.key \in DOMAIN store'[m] /\ store'[m][r.key] = r.value)
            /\ r.op = "DEL" => r.key \notin DOMAIN store'[m]
            /\ \A k \in ((DOMAIN store[m]) \cup (DOMAIN store'[m])) \ {r.key} :
                 k \in DOMAIN store[m] /\ k \in DOMAIN store'[m] /\ store'[m][k] = store[m][k]
    ]_vars

\* C12 witness: the follower has accepted a PUT of a key and then a delete of
\* that key, and the key is gone.
C12_Witness ==
  \E w, d \in DOMAIN resp :
    /\ d = w + 1
    /\ resp[w].req = "REPL" /\ resp[w].op = "PUT" /\ resp[w].status = 200
    /\ resp[d].req = "REPL" /\ resp[d].op = "DEL" /\ resp[d].status = 200
    /\ resp[d].node = resp[w].node /\ resp[d].key = resp[w].key
    /\ resp[d].key \notin DOMAIN store[resp[d].node]
    /\ Len(log[resp[d].node]) >= 3

\* request rid is a well-formed replicate-apply request handled by node m
IsApply(rs, rid, m) ==
  rid \in DOMAIN rs /\ rs[rid].req = "REPL" /\ ~rs[rid].bad /\ rs[rid].node = m

\* requests a and b carry the same replicated operation
SameOperation(rs, a, b) ==
  rs[a].op = rs[b].op /\ rs[a].key = rs[b].key /\ rs[a].value = rs[b].value

\* C13: every replicate-apply request that arrives is applied and logged, in
\* arrival order, a repetition included; and when it repeats the operation
\* (kind, key, value) of the request just before it on the same node, the
\* Store after it is the Store before it, i.e. the Store after one application.
C13_RepeatedApplyIsIdempotent ==
  [][\A rid \in (DOMAIN resp') \ (DOMAIN resp) : \A m \in Nodes :
       IsApply(resp', rid, m) =>
         /\ Appended(log[m], log'[m])
         /\ LastEvent(log'[m]).type = "replicate_apply"
         /\ LastEvent(log'[m]).rid = rid
         /\ (IsApply(resp, rid - 1, m) /\ SameOperation(resp', rid - 1, rid)) =>
              store'[m] = store[m]
    ]_vars

\* C13 witness: the follower has applied PUT(k, v1), then PUT(k, v2) twice in
\* a row, logged all three and holds v2.
C13_Witness ==
  /\ IsApply(resp, 1, "B") /\ IsApply(resp, 2, "B") /\ IsApply(resp, 3, "B")
  /\ resp[1].op = "PUT" /\ resp[1].value = "v1"
  /\ resp[2].op = "PUT" /\ resp[2].value = "v2" /\ resp[2].key = resp[1].key
  /\ SameOperation(resp, 2, 3)
  /\ Cardinality({i \in 1..Len(log["B"]) : log["B"][i].type = "replicate_apply"}) = 3
  /\ store["B"][resp[3].key] = "v2"

\* C14: a node holds, for every key, the value of the write that reached its
\* Store last: on the leader the last PUT accepted, on a follower the last
\* push that arrived, whatever the order in which the leader accepted the
\* writes; so two accepted writes of one key whose pushes arrive in the
\* opposite order leave the follower with the older value.
C14_NodeHoldsLastArrival ==
  \A n \in Nodes : \A k \in Keys :
    WritesOf(log[n], k) # {} =>
      /\ k \in DOMAIN store[n]
      /\ store[n][k] = resp[log[n][LastWrite(log[n], k)].rid].value

\* C14 witness: the leader accepted PUT(k, v1) and then PUT(k, v2), both
\* pushes to B were answered 200, B applied the second write before the
\* first, every replication thread has ended, and the leader holds v2 while B
\* holds v1.
C14_Witness ==
  /\ 1 \in DOMAIN resp /\ 2 \in DOMAIN resp
  /\ resp[1].node = Leader /\ resp[1].req = "PUT" /\ resp[1].status = 200
  /\ resp[2].node = Leader /\ resp[2].req = "PUT" /\ resp[2].status = 200
  /\ resp[1].key = resp[2].key /\ resp[1].value = "v1" /\ resp[2].value = "v2"
  /\ push = {}
  /\ \A rid \in {1, 2} :
       \E i \in ResultsOf(log[Leader], rid, "B") : log[Leader][i].extra.ok
  /\ \E i \in AppliesOf(log["B"], 2) : \E j \in AppliesOf(log["B"], 1) : i < j
  /\ store[Leader][resp[1].key] = "v2"
  /\ store["B"][resp[1].key] = "v1"

\* C15 as claimed: a malformed request (a PUT without key or value, a GET
\* without key, a replicate-apply without op, key or rid) is answered with an
\* error, appends one event recording the rejection to the node's log, and
\* leaves the Store, the failure-detector records, the operation counter and
\* the set of replication threads as they were.
C15_MalformedRejectedLoggedNoMutation ==
  [][\A rid \in (DOMAIN resp') \ (DOMAIN resp) :
       LET r == resp'[rid]
           m == r.node
       IN r.bad =>
            /\ r.status = 400
            /\ r.content = [error |-> "bad_json"]
            /\ Appended(log[m], log'[m])
            /\ LastEvent(log'[m]).rid = rid
            /\ store' = store
            /\ last_ok_ms' = last_ok_ms /\ fd_state' = fd_state
            /\ op_seq' = op_seq
            /\ push' = push
    ]_vars

\* C16: a call of is_leader_dead(t) returns false when no success is recorded
\* for the peer id "leader", and otherwise true iff
\* t - last_success_time > heartbeat_timeout; it changes neither the recorded
\* success times nor the recorded states, leaves fd_mu_ released and appends
\* no event.
C16_LeaderDeadIsPureView ==
  [][\A n \in Nodes :
       view'[n] # view[n] =>
         LET t    == view'[n].now
             dead == view'[n].dead
             m    == last_ok_ms[n]
         IN /\ ("leader" \notin DOMAIN m \/ m["leader"] = 0) => ~dead
            /\ ("leader" \in DOMAIN m /\ m["leader"] # 0) =>
                 (dead <=> t - m["leader"] > heartbeat_timeout_ms)
            /\ last_ok_ms' = last_ok_ms /\ fd_state' = fd_state
            /\ fd_mu' = fd_mu /\ log' = log /\ applied' = applied
    ]_vars

\* C16 witness: the follower recorded a success for "leader" at time 1, and
\* is_leader_dead(3) has answered true while the detector still records the
\* leader Alive.
C16_Witness ==
  /\ "leader" \in DOMAIN last_ok_ms["B"] /\ last_ok_ms["B"]["leader"] = 1
  /\ view["B"].now = 1 + heartbeat_timeout_ms + 1
  /\ view["B"].dead
  /\ fd_state["B"]["leader"] = "Alive"

\* the fd_state_change events of peer p in a log, in log order
FdEventsOf(lg, p) ==
  SelectSeq(lg, LAMBDA e : e.type = "fd_state_change" /\ e.extra.peer_id = p)

\* the scenario of C17: unreachable peer C of the leader has no recorded
\* success, a failed outcome for it stamped 1 has been applied (by a push that
\* has it still to log), the last outcome applied for it is a failure stamped
\* more than heartbeat_timeout later, and no call is in progress
FailuresBeyondTimeout ==
  /\ "C" \notin DOMAIN last_ok_ms[Leader]
  /\ \E th \in push : th.peer = "C" /\ th.pc = "result" /\ ~th.ok /\ th.t = 1
  /\ "C" \in DOMAIN applied[Leader]
  /\ ~applied[Leader]["C"].last.ok
  /\ applied[Leader]["C"].last.t > 1 + heartbeat_timeout_ms
  /\ fd_mu[Leader] = Free

\* C17 as claimed: in that scenario the leader's log holds exactly one
\* fd_state_change event of C from Suspected to Dead.
C17_ExactlyOneSuspectedToDead ==
  FailuresBeyondTimeout =>
    Cardinality({i \in 1..Len(log[Leader]) :
                   IsChange(log[Leader][i], "C", "Suspected", "Dead")}) = 1

\* C17 amended: for a peer without a recorded success the log holds no
\* fd_state_change event to Dead, however long its failed outcomes continue:
\* it holds exactly one event of that peer, from Alive to Suspected, as soon
\* as the first outcome for the peer has been applied and its call has
\* returned, and none before.
C17_OnlyAliveToSuspected ==
  \A n \in Nodes : \A p \in (DOMAIN applied[n]) \ (DOMAIN last_ok_ms[n]) :
    LET ev == FdEventsOf(log[n], p)
    IN /\ Len(ev) <= 1
       /\ Len(ev) = 1 => IsChange(ev[1], p, "Alive", "Suspected")
       /\ (\A c \in FdCalls(n) : ~(c.pc = "cs" /\ c.peer = p)) => Len(ev) = 1

\* C17 witness: the scenario, with the one Alive to Suspected event of C in
\* the log and B, which answered, recorded Alive.
C17_Witness ==
  /\ FailuresBeyondTimeout
  /\ Len(FdEventsOf(log[Leader], "C")) = 1
  /\ fd_state[Leader]["C"] = "Suspected"
  /\ "B" \in DOMAIN fd_state[Leader] /\ fd_state[Leader]["B"] = "Alive"

\* what C18 says of a well-formed GET apart from the operation counter: found
\* with the stored value iff the key is in the Store, else the not-found
\* result, which is no error; Store, failure-detector state and replication
\* threads untouched; one event, get_ok or get_notfound, logged
GetAnswersAndLogs(rid) ==
  LET r == resp'[rid]
      m == r.node
  IN /\ IF r.key \in DOMAIN store[m]
        THEN /\ r.status = 200
             /\ r.content = [ok |-> TRUE, rid |-> rid, found |-> TRUE,
                              value |-> store[m][r.key]]
        ELSE /\ r.status = 404
             /\ r.content = [ok |-> FALSE, rid |-> rid, found |-> FALSE]
     /\ store' = store
     /\ last_ok_ms' = last_ok_ms /\ fd_state' = fd_state /\ fd_mu' = fd_mu
     /\ push' = push
     /\ Appended(log[m], log'[m])
     /\ LastEvent(log'[m]).type = (IF r.status = 200 THEN "get_ok" ELSE "get_notfound")
     /\ LastEvent(log'[m]).rid = rid /\ LastEvent(log'[m]).key = r.key
     /\ \A n \in Nodes \ {m} : log'[n] = log[n]

Locks(n) == fd_mu[n] = Free /\ fd_mu'[n] # Free

\* the step releases fd_mu_ of node n: the record_outcome call returns
Unlocks(n) == fd_mu[n] # Free /\ fd_mu'[n] = Free

\* C19: a successful record_outcome(p, true, t) sets last_success_time of p
\* to t whatever the stored value, a newer one included, and records p Alive
\* whatever its previous state; when that state was not Alive (Suspected or
\* Dead) the call logs the fd_state_change from it to Alive.
C19_SuccessStampsAndRevives ==
  [][\A n \in Nodes :
       /\ Locks(n) =>
            \A c \in FdCalls(n)' :
              (c.who = fd_mu'[n] /\ c.ok) =>
                /\ c.peer \in DOMAIN last_ok_ms'[n] /\ last_ok_ms'[n][c.peer] = c.t
                /\ fd_state'[n][c.peer] = "Alive"
                /\ c.prev = Recorded(n, c.peer)
       /\ (Unlocks(n) /\ Holder(n).ok) =>
            LET c == Holder(n)
            IN /\ last_ok_ms'[n][c.peer] = c.t /\ fd_state'[n][c.peer] = "Alive"
               /\ IF c.prev = "Alive" THEN log'[n] = log[n]
                  ELSE /\ Appended(log[n], log'[n])
                       /\ IsChange(LastEvent(log'[n]), c.peer, c.prev, "Alive")
    ]_vars

\* C19 witness: B was recorded Dead by a failure stamped 3, and a success
\* stamped earlier, applied after it, has recorded B Alive with that earlier
\* stamp as last_success_time and has the Dead to Alive event to log.
C19_Witness ==
  \E c \in FdCalls(Leader) :
    /\ c.pc = "cs" /\ c.ok /\ c.peer = "B" /\ c.prev = "Dead"
    /\ c.t < applied[Leader]["B"].maxT
    /\ last_ok_ms[Leader]["B"] = c.t
    /\ fd_state[Leader]["B"] = "Alive"

\* map f has the same entry, or the same lack of one, for q as map g
SameEntry(f, g, q) ==
  /\ q \in DOMAIN f <=> q \in DOMAIN g
  /\ q \in DOMAIN f => f[q] = g[q]

\* C20: a failed record_outcome(p, false, t) leaves every last_success_time
\* as it was (a peer without a recorded success stays without one), and a
\* record_outcome call for p, failed or not, changes neither
\* last_success_time nor state of any other peer, on its node or on another;
\* nothing but the start of a record_outcome call changes these records.
C20_FailureKeepsLastSuccess ==
  [][\A n \in Nodes :
       IF Locks(n)
       THEN \A c \in FdCalls(n)' :
              c.who = fd_mu'[n] =>
                /\ ~c.ok => last_ok_ms'[n] = last_ok_ms[n]
                /\ \A q \in ((DOMAIN last_ok_ms[n]) \cup (DOMAIN last_ok_ms'[n])
                              \cup (DOMAIN fd_state[n]) \cup (DOMAIN fd_state'[n]))
                             \ {c.peer} :
                     /\ SameEntry(last_ok_ms'[n], last_ok_ms[n], q)
                     /\ SameEntry(fd_state'[n], fd_state[n], q)
       ELSE last_ok_ms'[n] = last_ok_ms[n] /\ fd_state'[n] = fd_state[n]
    ]_vars

\* C20 witness: a failed outcome for B, which has a recorded success, has
\* just been applied, stamped after that success, while C has a record of its
\* own and no recorded success.
C20_Witness ==
  \E c \in FdCalls(Leader) :
    /\ c.pc = "cs" /\ ~c.ok /\ c.peer = "B"
    /\ "B" \in DOMAIN last_ok_ms[Leader] /\ last_ok_ms[Leader]["B"] < c.t
    /\ "C" \in DOMAIN fd_state[Leader] /\ "C" \notin DOMAIN last_ok_ms[Leader]

\* the peer ids node n has a health record or a logged transition for
KnownPeers(n) ==
  (DOMAIN fd_state[n]) \cup
  {log[n][i].extra.peer_id : i \in {j \in 1..Len(log[n]) : log[n][j].type = "fd_state_change"}}

\* C21: for each peer, the fd_state_change events in log order form a chain:
\* the first has from = Alive, every later one has for from the to of the one
\* before it, every one has from # to, and the to of the last one (Alive when
\* there is none) is the state recorded for the peer, or, while a
\* record_outcome call for the peer has its transition still to log, the state
\* that call found.
C21_TransitionsFormAChain ==
  \A n \in Nodes : \A p \in KnownPeers(n) :
    LET ev    == FdEventsOf(log[n], p)
        last  == IF Len(ev) = 0 THEN "Alive" ELSE ev[Len(ev)].extra.to
        calls == {c \in FdCalls(n) : c.pc = "cs" /\ c.peer = p}
    IN /\ Len(ev) > 0 => ev[1].extra.from = "Alive"
       /\ \A i \in 2..Len(ev) : ev[i].extra.from = ev[i - 1].extra.to
       /\ \A i \in 1..Len(ev) : ev[i].extra.from # ev[i].extra.to
       /\ calls = {} => (p \in DOMAIN fd_state[n] /\ fd_state[n][p] = last)
       /\ \A c \in calls : c.prev = last

\* C21 witness: reports of the heartbeat thread and of a replication thread
\* for B have interleaved, and the leader's log holds the chain Alive to
\* Suspected, Suspected to Alive, Alive to Dead of B, with B recorded Dead.
C21_Witness ==
  LET ev == FdEventsOf(log[Leader], "B")
  IN /\ Len(ev) = 3
     /\ IsChange(ev[1], "B", "Alive", "Suspected")
     /\ IsChange(ev[2], "B", "Suspected", "Alive")
     /\ IsChange(ev[3], "B", "Alive", "Dead")
     /\ fd_state[Leader]["B"] = "Dead"
     /\ fd_mu[Leader] = Free
     /\ \E th \in push : th.peer = "B" /\ th.pc = "result"

\* C22, in every state: a peer has a health record on a node iff an outcome
\* has been recorded for it there, and a success time only with a record.
C22_RecordIffOutcome ==
  \A n \in Nodes :
    /\ DOMAIN fd_state[n] = DOMAIN applied[n]
    /\ DOMAIN last_ok_ms[n] \subseteq DOMAIN fd_state[n]

\* C22, in every step: no record and no success time is removed, and a record
\* is added only by the start of a record_outcome call, for the peer of that
\* call, whether the outcome is a success or a failure.
C22_RecordsOnlyAdded ==
  \A n \in Nodes :
    /\ DOMAIN fd_state[n] \subseteq DOMAIN fd_state'[n]
    /\ DOMAIN last_ok_ms[n] \subseteq DOMAIN last_ok_ms'[n]
    /\ Locks(n) => \A c \in FdCalls(n)' :
                     c.who = fd_mu'[n] =>
                       DOMAIN fd_state'[n] = (DOMAIN fd_state[n]) \cup {c.peer}
    /\ ~Locks(n) => DOMAIN fd_state'[n] = DOMAIN fd_state[n]

\* C22: the peer-health map of a node starts empty, has no entry for a peer
\* before the peer's first recorded outcome, gains it with the first outcome,
\* success or failure, and never loses an entry.
C22_HealthMapOnlyGrows ==
  /\ []C22_RecordIffOutcome
  /\ [][C22_RecordsOnlyAdded]_vars

\* C22 witness: C got its record from a first outcome that failed, B then got
\* its record from a first outcome that succeeded, and a call for B that
\* found B Alive again is in progress: both records are there.
C22_Witness ==
  /\ DOMAIN fd_state[Leader] = {"B", "C"}
  /\ DOMAIN last_ok_ms[Leader] = {"B"}
  /\ \E c \in FdCalls(Leader) : c.pc = "cs" /\ c.peer = "B" /\ c.ok /\ c.prev = "Alive"
  /\ Len(FdEventsOf(log[Leader], "B")) = 0
  /\ Len(FdEventsOf(log[Leader], "C")) = 1

\* the ids a heartbeat round of node n reports under, in order
Expected(n) == IF is_leader(n) THEN peers(n) ELSE <<"leader">>

\* sequence a is a prefix of sequence b
IsPrefix(a, b) == Len(a) <= Len(b) /\ SubSeq(b, 1, Len(a)) = a

\* C23, in every state: what a round has reported so far is a prefix of the
\* ids the node reports under (every follower on a leader, "leader" on a
\* follower), so each at most once and no other id; a round that has reached
\* its sleep has reported every one of them; no outcome is recorded under any
\* other id.
C23_RoundReportsEachOnce ==
  \A n \in Nodes :
    /\ IsPrefix(reported[n], Expected(n))
    /\ hb[n].pc = "sleep" => reported[n] = Expected(n)
    /\ DOMAIN applied[n] \subseteq {Expected(n)[i] : i \in 1..Len(Expected(n))}

\* C23, in every step: a round starts only when the round before it has
\* reported everything; a report is one record_outcome call carrying the
\* outcome and the time of the probe; a probe of a target that cannot answer
\* is a failure.
C23_RoundsInTurn ==
  \A n \in Nodes :
    /\ rounds'[n] # rounds[n] =>
         /\ rounds'[n] = rounds[n] + 1
         /\ hb[n].pc = "check"
         /\ rounds[n] = 0 \/ reported[n] = Expected(n)
         /\ reported'[n] = <<>>
    /\ (reported'[n] # reported[n] /\ reported'[n] # <<>>) =>
         /\ Locks(n) /\ fd_mu'[n] = HbThread
         /\ reported'[n] = Append(reported[n], Expected(n)[Len(reported[n]) + 1])
         /\ applied'[n][LastEvent(reported'[n])].last = [ok |-> hb[n].ok, t |-> hb[n].t]
    /\ (Locks(n) /\ fd_mu'[n] = HbThread) => reported'[n] # reported[n]
    /\ (hb[n].pc = "probe" /\ hb'[n].pc = "fd" /\ ~Reachable(HbTarget(n))) => ~hb'[n].ok

\* C23: each heartbeat round on a leader records exactly one outcome for every
\* configured follower and none for any other id, each round on a follower
\* exactly one under the id "leader" and none under any other; a failed probe
\* is recorded as success = false; rounds of one node never overlap.
C23_OneOutcomePerPeerPerRound ==
  /\ []C23_RoundReportsEachOnce
  /\ [][C23_RoundsInTurn]_vars

\* C23 witness: the leader has finished its second round, having reported B
\* and then C, the probe of C a failure; the follower has finished a round,
\* having reported "leader".
C23_Witness ==
  /\ hb[Leader].pc = "sleep" /\ rounds[Leader] = 2
  /\ reported[Leader] = <<"B", "C">>
  /\ ~applied[Leader]["C"].last.ok
  /\ hb["B"].pc = "sleep" /\ reported["B"] = <<"leader">>

\* C24, in every state: while the node is running its heartbeat thread is in
\* the loop; the thread has ended only if running_ is cleared, and run() has
\* returned only if the thread has ended.
C24_ExitsOnlyOnShutdown ==
  \A n \in Nodes :
    /\ hb[n].pc = "done" => (~running[n] /\ phase[n] \in {"stopping", "stopped"})
    /\ phase[n] = "stopped" => hb[n].pc = "done"
    /\ phase[n] = "up" => hb[n].pc \notin {"idle", "done"}

\* C24, in every step: a round starts only while running_ is set, so after
\* the shutdown the loop finishes the round and the sleep it is in and starts
\* no other; a thread that has ended stays ended.
C24_NoRoundAfterShutdown ==
  \A n \in Nodes :
    /\ rounds'[n] # rounds[n] => (running[n] /\ phase[n] = "up")
    /\ hb[n].pc = "done" => (hb'[n].pc = "done" /\ reported'[n] = reported[n])
    /\ (hb[n].pc # "done" /\ hb'[n].pc = "done") => hb[n].pc = "check"

\* C24: the heartbeat loop runs rounds while the node is running and leaves
\* the loop only after running is cleared; once the node shuts down the loop
\* finishes at most its current round and sleep, starts no new round and
\* terminates, and run() joins the thread and returns.
C24_LoopEndsWithNode ==
  /\ []C24_ExitsOnlyOnShutdown
  /\ [][C24_NoRoundAfterShutdown]_vars
  /\ \A n \in Nodes : (phase[n] = "stopping") ~> (phase[n] = "stopped")

\* C24 witness: the leader was shut down in the middle of its first round,
\* the round was finished (B and C reported), no second round was started, the
\* thread has ended and run() has returned.
C24_Witness ==
  /\ phase[Leader] = "stopped" /\ hb[Leader].pc = "done"
  /\ rounds[Leader] = 1 /\ reported[Leader] = <<"B", "C">>
  /\ LastEvent(log[Leader]).type = "node_stop"

\* the positions of the put_ok events for rid in a log
AcceptsOf(lg, rid) == {i \in 1..Len(lg) : lg[i].type = "put_ok" /\ lg[i].rid = rid}

\* C25, in every state: every replication thread, every replicate_result
\* event and every write applied by a follower belongs to a request whose
\* put_ok the leader logged before; and every value a follower holds is the
\* value of a write the leader accepted for that key.
C25_AcceptedBeforeReplicated ==
  /\ \A th \in push : AcceptsOf(log[th.node], th.rid) # {}
  /\ \A i \in 1..Len(log[Leader]) :
       log[Leader][i].type = "replicate_result" =>
         \E j \in AcceptsOf(log[Leader], log[Leader][i].rid) : j < i
  /\ \A m \in Nodes \ {Leader} :
       /\ \A i \in 1..Len(log[m]) :
            log[m][i].type = "replicate_apply" =>
              \E j \in AcceptsOf(log[Leader], log[m][i].rid) :
                log[Leader][j].key = log[m][i].key
       /\ \A k \in DOMAIN store[m] :
            \E j \in 1..Len(log[Leader]) :
              /\ log[Leader][j].type = "put_ok" /\ log[Leader][j].key = k
              /\ resp[log[Leader][j].rid].value = store[m][k]

\* C25, in every step: the step that starts the pushes of a write leaves the
\* write applied to the leader's Store and put_ok as the last event of the
\* leader's log, with no push of that write started before.
C25_PushStartsAfterApply ==
  \A th \in push' \ push :
    th.pc = "post" =>
      /\ ThreadsOf(th.rid, th.peer) = {}
      /\ th.key \in DOMAIN store'[th.node] /\ store'[th.node][th.key] = th.value
      /\ LastEvent(log'[th.node]).type = "put_ok"
      /\ LastEvent(log'[th.node]).rid = th.rid
      /\ AcceptsOf(log[th.node], th.rid) = {}

\* C25: the leader applies an accepted write to its Store and logs put_ok
\* before any push of the write starts; put_ok of a request id precedes every
\* replicate_result of that id in the log; a follower holds no replicated
\* write that the leader had not applied before.
C25_ApplyThenLogThenPush ==
  /\ []C25_AcceptedBeforeReplicated
  /\ [][C25_PushStartsAfterApply]_vars

\* C25 witness: the leader's log holds put_ok of a write and after it the
\* replicate_result, ok = true, of the push to B; B holds the value.
C25_Witness ==
  \E rid \in DOMAIN resp :
    /\ resp[rid].req = "PUT" /\ resp[rid].status = 200
    /\ \E j \in AcceptsOf(log[Leader], rid) :
         \E i \in ResultsOf(log[Leader], rid, "B") : j < i /\ log[Leader][i].extra.ok
    /\ resp[rid].key \in DOMAIN store["B"]
    /\ store["B"][resp[rid].key] = resp[rid].value

\* the number of replicate_result events in the log of node n: the pushes of
\* n that have ended
Ended(n) == Cardinality({i \in 1..Len(log[n]) : log[n][i].type = "replicate_result"})

\* the replication pushes started so far: the threads alive and the threads
\* that have ended
Sent == Cardinality(push) + Ended("A") + Ended("B")

\* C27, in every state: every push belongs to the leader, a node that is not
\* the leader has ended none, and the pushes started are at most the writes
\* the leader accepted times its configured peers.
C27_OnlyLeaderPushes ==
  /\ \A th \in push : is_leader(th.node)
  /\ \A n \in Nodes : ~is_leader(n) => Ended(n) = 0
  /\ Sent <= Accepted(Leader) * Len(peers(Leader))

\* C27, in every step: a step in which a node applies a replicated operation
\* starts no push, and a step that starts a push is the leader accepting a
\* write.
C27_ApplyStartsNoPush ==
  LET started == {th \in push' \ push : th.pc = "post"}
  IN /\ (\E m \in Nodes : Len(log'[m]) > Len(log[m])
                           /\ LastEvent(log'[m]).type = "replicate_apply")
          => started = {}
     /\ started # {} => /\ Len(log'[Leader]) > Len(log[Leader])
                        /\ LastEvent(log'[Leader]).type = "put_ok"

\* C27: replication never cascades: applying a replicated operation on any
\* node starts no push, a node that is not the leader never starts one, and
\* the replicate requests sent are at most the writes the leader accepted
\* times the number of its configured peers.
C27_NoCascade ==
  /\ []C27_OnlyLeaderPushes
  /\ [][C27_ApplyStartsNoPush]_vars

\* C27 witness: the leader has accepted a write and has itself applied a
\* replicated operation, the follower has applied the leader's push, and the
\* pushes started are exactly the leader's peers.
C27_Witness ==
  /\ Accepted(Leader) = 1
  /\ \E i \in 1..Len(log[Leader]) : log[Leader][i].type = "replicate_apply"
  /\ \E i \in 1..Len(log["B"]) : log["B"][i].type = "replicate_apply"
  /\ Sent = Len(peers(Leader))
  /\ push = {}

\* the producers inside append_jsonl past its lock_guard
Inside == {p \in Producers : jsonl.pc[p] \in {"line", "nl", "unlock"}}

\* the records of the file, in file order: the records of its text pieces
RECURSIVE Records(_)
Records(f) ==
  IF f = <<>> THEN <<>>
  ELSE IF f[1].kind = "text" THEN <<f[1].rec>> \o Records(Tail(f))
  ELSE Records(Tail(f))

\* C26, in every state: at most one producer is inside append_jsonl, and it
\* holds g_log_mu; the file is a sequence of whole lines, each the text of
\* one record followed by that record's newline, but for the line the
\* producer inside is writing; the records of the file are the admitted
\* calls in the order of their admission, but for the call just admitted.
C26_SerialAppends ==
  /\ Cardinality(Inside) <= 1
  /\ \A p \in Inside : jsonl.mu = p
  /\ \A i \in 1..Len(jsonl.file) :
       IF i % 2 = 1
       THEN /\ jsonl.file[i].kind = "text"
            /\ i = Len(jsonl.file) => jsonl.pc[jsonl.file[i].by] = "nl"
       ELSE /\ jsonl.file[i].kind = "nl"
            /\ jsonl.file[i].rec = jsonl.file[i - 1].rec
  /\ IsPrefix(Records(jsonl.file), jsonl.admitted)
  /\ Len(jsonl.admitted) - Len(Records(jsonl.file))
       = Cardinality({p \in Producers : jsonl.pc[p] = "line"})

\* C26, in every step: the file only grows at its end
C26_AppendOnly == IsPrefix(jsonl.file, jsonl.file')

\* C26: the appends of the concurrent producers of a process exclude each
\* other, every record is written whole as one newline-terminated line, and
\* the records are in the file in the order their calls were admitted.
C26_AppendsAreSerialized ==
  /\ []C26_SerialAppends
  /\ [][C26_AppendOnly]_vars

\* C26 witness: one producer is between the text and the newline of its
\* record while the two others wait for g_log_mu, and the file already holds
\* a whole line of another producer.
C26_Witness ==
  \E p \in Producers :
    /\ jsonl.pc[p] = "nl"
    /\ \A q \in Producers \ {p} : jsonl.pc[q] = "lock"
    /\ Len(jsonl.file) = 3
    /\ jsonl.file[1].by # p

\* the positions of event in the detector's log
DetEvents(event) == {i \in 1..Len(det.log) : det.log[i] = event}

\* C28, in every state: declared_dead is logged at most once, and no
\* hb_ack_recv follows it in the log.
C28_NoAckAfterDeclaration ==
  /\ Cardinality(DetEvents("declared_dead")) <= 1
  /\ \A i \in DetEvents("declared_dead") : \A j \in DetEvents("hb_ack_recv") : j < i

\* C28, in every step: the declaration is made at a check that found
\* now - last_ack_time >= hb_timeout_ms, and once declared_dead is logged
\* last_ack_time is not updated.
C28_LastAckFrozen ==
  /\ (det'.dead_declared /\ ~det.dead_declared) =>
       (det.cnow - det.clast) >= hb_timeout_ms
  /\ DetEvents("declared_dead") # {} =>
       det'.last_ack_time_mono = det.last_ack_time_mono

\* C28: the peer is declared dead at most once, at a check that finds
\* now - last_ack_time >= hb_timeout_ms, and under every interleaving of the
\* sender, receiver and checker no hb_ack_recv is logged and last_ack_time
\* is not updated after the declared_dead event.
C28_LateAcksIgnored ==
  /\ []C28_NoAckAfterDeclaration
  /\ [][C28_LastAckFrozen]_vars

====
